---- MODULE Spec2Model ----
(***************************************************************************)
(* A model of the Domoticz EVCC IO plugin: the command relay of            *)
(* BasePlugin.onCommand (plugin.py), the device write helper               *)
(* update_device_value (helpers.py), the controller-to-UI translation of   *)
(* DeviceManager.update_*_devices (devices.py) and the WebSocket client    *)
(* EVCCApi (api.py).                                                       *)
(*                                                                         *)
(* SpecCmd is the command relay and the update writes, SpecWs the          *)
(* WebSocket client with its threads interleaved, SpecMerge the same       *)
(* client one whole handler after the other.                               *)
(*                                                                         *)
(* Underscore-separated strings (device descriptions, mapping keys,        *)
(* parameter names) are modelled as the sequence of their words:           *)
(* "loadpoint_1_min_soc" is <<"loadpoint", "1", "min", "soc">>, so that    *)
(* str.split("_") and the comparisons against literals such as "min_soc"   *)
(* are computed as Python computes them.                                   *)
(***************************************************************************)
EXTENDS Integers, Sequences, FiniteSets, TLC

VARIABLES
    Devices,              \* the host registry: unit -> device record
    unit_device_mapping,  \* DeviceManager.unit_device_mapping: unit -> key
    last,                 \* the last handler that ran, with what it did
    calls,                \* the number of handler invocations so far
    api,                  \* the EVCCApi object: attribute -> value
    connections,          \* the WebSocketApp objects created so far, in order
    main,                 \* the plugin thread inside connect_/close_websocket
    thread,               \* the websocket thread running run_websocket
    timers,               \* the threading.Timer objects of the one-time mode
    now,                  \* time.time(), in whole seconds
    device_unit_mapping,  \* DeviceManager.device_unit_mapping: key -> unit
    plugin,               \* the BasePlugin object: attribute -> value
    hb,                   \* the onHeartbeat invocations the host has made
    failures              \* connect_websocket calls that failed in a row, so far

cmdVars == <<Devices, unit_device_mapping, last, calls, device_unit_mapping>>
wsVars == <<api, connections, main, thread, timers, now>>
hbVars == <<plugin, hb, failures>>
vars == <<Devices, unit_device_mapping, last, calls,
          api, connections, main, thread, timers, now,
          device_unit_mapping, plugin, hb, failures>>

-----------------------------------------------------------------------------
(* Python values *)

None == [none |-> TRUE]

\* The literals the handlers compare against, as word sequences.
S_loadpoint == <<"loadpoint">>
S_battery == <<"battery">>
S_vehicle == <<"vehicle">>
S_mode == <<"mode">>
S_phases == <<"phases">>
S_min_soc == <<"min", "soc">>
S_target_soc == <<"target", "soc">>
S_status == <<"status">>

\* f"{float(v):.1f}" of an integer v
FormatOneDecimal(v) == ToString(v) \o ".0"

-----------------------------------------------------------------------------
(* The registry the plugin creates for one battery, one vehicle and one     *)
(* loadpoint (create_battery_devices, create_vehicle_devices,               *)
(* create_loadpoint_devices): unit numbers as get_device_unit allocates     *)
(* them, Type/SubType as passed to Domoticz.Device.                         *)

TYPE_SELECTOR == 244
SUBTYPE_SELECTOR == 62
TYPE_CUSTOM == 243
SUBTYPE_PERCENTAGE == 6
TYPE_COUNTER == 113

UNIT_BASE_BATTERY == 20
UNIT_BASE_VEHICLE == 100
UNIT_BASE_LOADPOINT == 200
UNIT_BASE_SESSION == 300
STRIDE_BATTERY == 10
STRIDE_ENTITY == 20

\* base + id * stride, then the next free unit in creation order
UNIT_BATTERY_MODE == UNIT_BASE_BATTERY + 1 * STRIDE_BATTERY
UNIT_VEHICLE_STATUS == UNIT_BASE_VEHICLE + 1 * STRIDE_ENTITY + 1
UNIT_LP_MODE == UNIT_BASE_LOADPOINT + 1 * STRIDE_ENTITY + 2
UNIT_LP_PHASES == UNIT_BASE_LOADPOINT + 1 * STRIDE_ENTITY + 3
UNIT_LP_MIN_SOC == UNIT_BASE_LOADPOINT + 1 * STRIDE_ENTITY + 4
UNIT_LP_TARGET_SOC == UNIT_BASE_LOADPOINT + 1 * STRIDE_ENTITY + 5
\* a unit no device of the plugin has
UNIT_UNKNOWN == UNIT_BASE_SESSION

NewDevice(type, subtype, description, deviceId) ==
    [Type |-> type, SubType |-> subtype, TypeName |-> "",
     Description |-> description, DeviceID |-> deviceId,
     nValue |-> 0, sValue |-> ""]

\* DeviceID is loadpoint_data["original_id"] / vehicle_data["original_id"]
\* when the payload has one, "" otherwise.
LoadpointDeviceIDs == {"", "lp7"}
VehicleDeviceIDs == {""}

CreatedDevices(lpId, vehId) ==
    (UNIT_BATTERY_MODE :> NewDevice(TYPE_SELECTOR, SUBTYPE_SELECTOR, <<"battery", "1", "mode">>, ""))
    @@ (UNIT_VEHICLE_STATUS :> NewDevice(TYPE_SELECTOR, SUBTYPE_SELECTOR, <<"vehicle", "1", "status">>, vehId))
    @@ (UNIT_LP_MODE :> NewDevice(TYPE_SELECTOR, SUBTYPE_SELECTOR, <<"loadpoint", "1", "mode">>, lpId))
    @@ (UNIT_LP_PHASES :> NewDevice(TYPE_SELECTOR, SUBTYPE_SELECTOR, <<"loadpoint", "1", "phases">>, lpId))
    @@ (UNIT_LP_MIN_SOC :> NewDevice(TYPE_CUSTOM, SUBTYPE_PERCENTAGE, <<"loadpoint", "1", "min", "soc">>, lpId))
    @@ (UNIT_LP_TARGET_SOC :> NewDevice(TYPE_CUSTOM, SUBTYPE_PERCENTAGE, <<"loadpoint", "1", "target", "soc">>, lpId))

\* int(text) of the texts that occur: the number, or ValueError
DecimalTexts == [text \in {"1", "2", "5"} |->
                    IF text = "1" THEN 1 ELSE IF text = "2" THEN 2 ELSE 5]
RaisesValueError(text) == text \notin DOMAIN DecimalTexts

\* The words of the descriptions, by the character classes of the pattern
\* r'^([a-z]+)_([a-zA-Z0-9:]+)_([a-z_]+)$': the words that are [a-z]+, the
\* texts with a ':' and the texts that are [a-zA-Z0-9:]+ ("l1" has a digit,
\* "my-car" a character of neither class)
LowercaseWords ==
    {"site", "battery", "vehicle", "loadpoint", "grid", "mode", "phases", "min",
     "target", "soc", "status", "power", "charged", "charging", "energy", "timer",
     "effective", "max", "current", "pv"}
ColonTexts == {"db:2", "db:5"}
IdTexts == DOMAIN DecimalTexts \cup ColonTexts \cup LowercaseWords \cup {"l1"}

\* re.search(pattern, device.Description): the first group takes the first
\* word, the second the second word, the third every word after it
MatchesConvention(description) ==
    /\ Len(description) >= 3
    /\ description[1] \in LowercaseWords
    /\ description[2] \in IdTexts
    /\ \A i \in 3..Len(description) : description[i] \in LowercaseWords

\* get_device_id(text_id) inside _load_device_mapping, as f"{device_id}"
\* prints what it returns
GetDeviceIdAfterColon(text_id) ==
    IF text_id = "db:2" THEN "2" ELSE IF text_id = "db:5" THEN "5"
    ELSE IF RaisesValueError(text_id) THEN text_id
    ELSE ToString(DecimalTexts[text_id])

get_device_id(text_id) ==
    IF text_id \in ColonTexts THEN text_id
    ELSE IF RaisesValueError(text_id) THEN text_id
    ELSE ToString(DecimalTexts[text_id])

\* helpers.extract_device_info_from_description: the three groups of the
\* pattern, the parameter being every word after the id
extract_device_info_from_description(description) ==
    IF MatchesConvention(description)
    THEN [device_type |-> <<description[1]>>,
          device_id |-> description[2],
          parameter |-> SubSeq(description, 3, Len(description))]
    ELSE None

\* key = f"{device_type}_{device_id}_{parameter}" of a description that
\* matches
LoadedKey(description) ==
    <<description[1], get_device_id(description[2])>>
        \o SubSeq(description, 3, Len(description))

\* the units whose description follows the convention
LoadedUnits(D) == {u \in DOMAIN D : MatchesConvention(D[u].Description)}

\* _load_device_mapping: unit -> key for every record whose description
\* follows the convention
LoadUnitDeviceMapping(D) == [u \in LoadedUnits(D) |-> LoadedKey(D[u].Description)]

\* get_device_unit(..., create_new=False): the unit mapped to a key, if any.
HasUnit(key) == \E u \in DOMAIN unit_device_mapping : unit_device_mapping[u] = key

get_device_unit(key) ==
    CHOOSE u \in DOMAIN unit_device_mapping : unit_device_mapping[u] = key

-----------------------------------------------------------------------------
(* helpers.update_device_value(unit, n_value, s_value, Devices) for numeric *)
(* n_value and s_value: the registry after the call.                        *)

FormatSValue(device, s_value) ==
    IF device.Type = TYPE_COUNTER THEN ToString(s_value) \o ".000"
    ELSE IF device.Type = TYPE_CUSTOM
         THEN (IF device.SubType = SUBTYPE_PERCENTAGE
               THEN FormatOneDecimal(s_value)
               ELSE ToString(s_value))
    ELSE ToString(s_value)

FormatNValue(device, n_value, s_value) ==
    IF device.Type = TYPE_COUNTER THEN s_value * 1000 ELSE n_value

update_device_value(D, unit, n_value, s_value) ==
    IF unit \notin DOMAIN D THEN D
    ELSE [D EXCEPT ![unit].nValue = FormatNValue(D[unit], n_value, s_value),
                   ![unit].sValue = FormatSValue(D[unit], s_value)]

-----------------------------------------------------------------------------
(* DeviceManager.get_device_info: the key split at every underscore; the    *)
(* first three pieces are the type, the id and the parameter.               *)

get_device_info(unit) ==
    IF unit \notin DOMAIN unit_device_mapping THEN None
    ELSE LET device_info == unit_device_mapping[unit]
         IN IF Len(device_info) < 3 THEN None
            ELSE [device_type |-> <<device_info[1]>>,
                  device_id |-> device_info[2],
                  parameter |-> <<device_info[3]>>]

-----------------------------------------------------------------------------
(* Command translation of BasePlugin.onCommand: UI level -> controller      *)

ModeOfLevelLastBranchCatchesAll(Level) ==
    IF Level = 10 THEN "now"
    ELSE IF Level = 20 THEN "minpv"
    ELSE IF Level = 0 THEN "off"
    ELSE "pv"

ModeOfLevel(Level) ==
    IF Level = 10 THEN "now"
    ELSE IF Level = 20 THEN "minpv"
    ELSE IF Level = 30 THEN "pv"
    ELSE "off"

PhasesOfLevel(Level) ==
    IF Level = 0 THEN 0
    ELSE IF Level = 10 THEN 1
    ELSE IF Level = 20 THEN 3
    ELSE 0

BatteryModeOfLevel(Level) ==
    IF Level = 0 THEN "unknown"
    ELSE IF Level = 10 THEN "normal"
    ELSE IF Level = 20 THEN "hold"
    ELSE IF Level = 30 THEN "charge"
    ELSE "normal"

(* Translation of DeviceManager.update_*_devices: controller -> UI level    *)

\* str.lower() on the battery modes the model sends
Lower(s) ==
    IF s = "Normal" THEN "normal"
    ELSE IF s = "HOLD" THEN "hold"
    ELSE s

LevelOfMode(mode) ==
    IF mode = "off" THEN 0
    ELSE IF mode = "now" THEN 10
    ELSE IF mode = "minpv" THEN 20
    ELSE IF mode = "pv" THEN 30
    ELSE 0

LevelOfPhases(phases) ==
    IF phases = 0 THEN 0
    ELSE IF phases = 1 THEN 10
    ELSE IF phases = 3 THEN 20
    ELSE 0

LevelOfBatteryMode(batteryMode) ==
    LET mode == Lower(batteryMode)
    IN IF mode = "normal" THEN 10
       ELSE IF mode = "hold" THEN 20
       ELSE IF mode = "charge" THEN 30
       ELSE IF mode = "external" THEN 40
       ELSE 0

LevelOfVehicleStatus(status) ==
    IF status = "A" THEN 10
    ELSE IF status = "B" THEN 20
    ELSE IF status = "C" THEN 30
    ELSE 0

-----------------------------------------------------------------------------
(* The controller's answer to a command request: an HTTP status, or an      *)
(* exception raised by requests.post.                                       *)

HTTP_OK == 200
HTTP_ERROR == 500
Responses == {[kind |-> "status", code |-> HTTP_OK],
              [kind |-> "status", code |-> HTTP_ERROR],
              [kind |-> "exception", code |-> 0]}

\* EVCCApi.set_loadpoint_mode / set_loadpoint_phases / set_loadpoint_min_soc /
\* set_loadpoint_target_soc / set_battery_mode: True exactly on status 200.
ApiSetSucceedsOnAnyStatus(resp) == resp.kind = "status"

ApiSetSucceeds(resp) == resp.kind = "status" /\ resp.code = HTTP_OK

\* `if self.api.set_x(id, value): update_device_value(Unit, n, s, Devices)`:
\* the events of the invocation in order, and the registry afterwards.
RelayCommandOptimistic(D, Unit, setter, id, value, resp, n_value, s_value) ==
    [log |-> <<[ev |-> "write", unit |-> Unit, nValue |-> n_value, sValue |-> s_value],
               [ev |-> "request", api |-> setter, id |-> id, value |-> value, resp |-> resp]>>,
     Devices |-> update_device_value(D, Unit, n_value, s_value)]

RelayCommand(D, Unit, setter, id, value, resp, n_value, s_value) ==
    LET request == [ev |-> "request", api |-> setter, id |-> id, value |-> value, resp |-> resp]
        write == [ev |-> "write", unit |-> Unit, nValue |-> n_value, sValue |-> s_value]
    IN IF ApiSetSucceeds(resp)
       THEN [log |-> IF Unit \in DOMAIN D THEN <<request, write>> ELSE <<request>>,
             Devices |-> update_device_value(D, Unit, n_value, s_value)]
       ELSE [log |-> <<request>>, Devices |-> D]

NoEffect(D) == [log |-> <<>>, Devices |-> D]

\* external_id = Devices[Unit].DeviceID if it is set, else the key's id
ExternalId(D, Unit, device_id) ==
    IF D[Unit].DeviceID # "" THEN D[Unit].DeviceID ELSE device_id

\* BasePlugin.onCommand(Unit, Command, Level, Hue) as a function of the
\* registry and the controller's answer.
CommandEffect(D, Unit, Level, resp) ==
    LET device_info == get_device_info(Unit)
    IN IF device_info = None THEN NoEffect(D)
       ELSE LET device_type == device_info.device_type
                device_id == device_info.device_id
                parameter == device_info.parameter
            IN IF device_type = S_loadpoint
               THEN (IF Unit \notin DOMAIN D THEN NoEffect(D)  \* KeyError, caught
                     ELSE IF parameter = S_mode
                     THEN RelayCommand(D, Unit, "set_loadpoint_mode",
                                       ExternalId(D, Unit, device_id),
                                       ModeOfLevel(Level), resp, Level, 0)
                     ELSE IF parameter = S_phases
                     THEN RelayCommand(D, Unit, "set_loadpoint_phases",
                                       ExternalId(D, Unit, device_id),
                                       PhasesOfLevel(Level), resp, Level, 0)
                     ELSE IF parameter = S_min_soc
                     THEN RelayCommand(D, Unit, "set_loadpoint_min_soc",
                                       ExternalId(D, Unit, device_id),
                                       Level, resp, 0, Level)
                     ELSE IF parameter = S_target_soc
                     THEN RelayCommand(D, Unit, "set_loadpoint_target_soc",
                                       ExternalId(D, Unit, device_id),
                                       Level, resp, 0, Level)
                     ELSE NoEffect(D))
               ELSE IF device_type = S_battery /\ parameter = S_mode
               THEN RelayCommand(D, Unit, "set_battery_mode", "",
                                 BatteryModeOfLevel(Level), resp, Level, 0)
               ELSE NoEffect(D)  \* vehicle commands are only logged

\* The levels a selector can send: those of the tables, and one of none.
Levels == {0, 10, 20, 30, 40, 50}
CommandUnits == {UNIT_BATTERY_MODE, UNIT_VEHICLE_STATUS, UNIT_LP_MODE, UNIT_LP_PHASES,
                 UNIT_LP_MIN_SOC, UNIT_LP_TARGET_SOC, UNIT_UNKNOWN}

\* the handler invocations of one behaviour
MaxHandlerCalls == 2

Called ==
    /\ calls < MaxHandlerCalls
    /\ calls' = calls + 1
    /\ UNCHANGED <<unit_device_mapping, device_unit_mapping>>
    /\ UNCHANGED <<wsVars, hbVars>>

onCommand(Unit, Level, resp) ==
    LET effect == CommandEffect(Devices, Unit, Level, resp)
    IN /\ Called
       /\ Devices' = effect.Devices
       /\ last' = [op |-> "onCommand", Unit |-> Unit, Level |-> Level,
                   log |-> effect.log]

OnCommand ==
    \E Unit \in CommandUnits, Level \in Levels, resp \in Responses :
        onCommand(Unit, Level, resp)

-----------------------------------------------------------------------------
(* The update cycle's writes: DeviceManager.update_loadpoint_devices,       *)
(* update_battery_devices and update_vehicle_devices, for the devices of    *)
(* the registry above.  A payload is the set of its keys and their values.  *)

MaxPayloadKeys == 1

ControllerModes == {"off", "now", "minpv", "pv", "fast"}
ControllerPhases == {0, 1, 2, 3}
ControllerSoc == {80}
ControllerBatteryModes == {"unknown", "normal", "hold", "charge", "external",
                           "Normal", "HOLD", "eco"}
ControllerVehicleStatus == {"A", "B", "C", "F"}
EntityIds == {1, 2}

LoadpointPayloads ==
    {d \in [keys : SUBSET {"mode", "phases", "minSoc", "targetSoc"},
            mode : ControllerModes, phases : ControllerPhases,
            minSoc : ControllerSoc, targetSoc : ControllerSoc] :
        /\ Cardinality(d.keys) \in 1..MaxPayloadKeys
        /\ "mode" \notin d.keys => d.mode = "off"
        /\ "phases" \notin d.keys => d.phases = 0}

Key(kind, id, parameter) == <<kind, ToString(id)>> \o parameter

\* one `if "<field>" in data: unit = get_device_unit(...); if unit is not
\* None: update_device_value(unit, n, s, Devices)` block
UpdateField(D, present, key, n_value, s_value) ==
    IF present /\ HasUnit(key)
    THEN update_device_value(D, get_device_unit(key), n_value, s_value)
    ELSE D

update_loadpoint_devices(D, loadpoint_id, data) ==
    LET D1 == UpdateField(D, "mode" \in data.keys,
                          Key("loadpoint", loadpoint_id, S_mode),
                          LevelOfMode(data.mode), 0)
        D2 == UpdateField(D1, "phases" \in data.keys,
                          Key("loadpoint", loadpoint_id, S_phases),
                          LevelOfPhases(data.phases), 0)
        D3 == UpdateField(D2, "minSoc" \in data.keys,
                          Key("loadpoint", loadpoint_id, S_min_soc),
                          0, data.minSoc)
        D4 == UpdateField(D3, "targetSoc" \in data.keys,
                          Key("loadpoint", loadpoint_id, S_target_soc),
                          0, data.targetSoc)
    \* the charging timer of a loadpoint whose data has no "charging"
    IN UpdateField(D4, TRUE, Key("loadpoint", loadpoint_id, <<"charging", "timer">>),
                   0, 0)

update_battery_devices(D, batteryMode) ==
    UpdateField(D, TRUE, Key("battery", 1, S_mode), LevelOfBatteryMode(batteryMode), 0)

update_vehicle_devices(D, vehicle_id, status) ==
    UpdateField(D, TRUE, Key("vehicle", vehicle_id, S_status), LevelOfVehicleStatus(status), 0)

UpdateLoadpointDevices ==
    \E loadpoint_id \in EntityIds, data \in LoadpointPayloads :
        /\ Called
        /\ Devices' = update_loadpoint_devices(Devices, loadpoint_id, data)
        /\ last' = [op |-> "update_loadpoint_devices", id |-> loadpoint_id, data |-> data]

UpdateBatteryDevices ==
    \E batteryMode \in ControllerBatteryModes :
        /\ Called
        /\ Devices' = update_battery_devices(Devices, batteryMode)
        /\ last' = [op |-> "update_battery_devices", batteryMode |-> batteryMode]

UpdateVehicleDevices ==
    \E vehicle_id \in EntityIds, status \in ControllerVehicleStatus :
        /\ Called
        /\ Devices' = update_vehicle_devices(Devices, vehicle_id, status)
        /\ last' = [op |-> "update_vehicle_devices", id |-> vehicle_id, status |-> status]

-----------------------------------------------------------------------------
(* The WebSocket client EVCCApi (api.py): its attributes, the fragments a   *)
(* connection delivers, and what each callback and method assigns.          *)

\* self.ws = None and self.ws_thread = None; a WebSocketApp object is its
\* position in connections, a Thread object its position in thread
NoWs == 0

\* A dict is a function on its keys.
EmptyDict == [k \in {} |-> 0]

\* dict.update: b's items over a's
Update(a, b) ==
    [k \in (DOMAIN a) \cup (DOMAIN b) |-> IF k \in DOMAIN b THEN b[k] ELSE a[k]]

\* EVCCApi.__init__ (received_complete_state is first assigned by
\* connect_websocket and is never read)
NewEVCCApi ==
    [ws |-> NoWs,
     ws_connected |-> FALSE,
     ws_last_data |-> EmptyDict,
     ws_temp_data |-> EmptyDict,
     ws_keep_connection |-> FALSE,
     last_complete_update |-> 0,
     update_in_progress |-> FALSE,
     last_data_update |-> 0,
     received_complete_state |-> FALSE,
     ws_thread |-> NoWs]

min_complete_update_interval == 5
min_merge_interval == 1
complete_state_indicators == {"pvPower", "grid", "homePower", "loadpoints.0"}

\* The keys of the fragments: two of the indicators and one other field.
Keys == {"pvPower", "homePower", "gridPower"}

\* The fragments that carry one of vals under every key they have.
Fragments(vals) ==
    {[k \in d |-> v] : d \in (SUBSET Keys) \ {{}}, v \in vals}

\* A frame is JSON for a dict, JSON for something else, or not JSON.
Messages(vals) ==
    {[kind |-> "dict", data |-> f] : f \in Fragments(vals)}
        \cup {[kind |-> "list"], [kind |-> "invalid"]}

NoMessage == [kind |-> "none"]

\* one indicator is enough
OneIndicatorCompletes(data) ==
    Cardinality(complete_state_indicators \cap DOMAIN data) >= 1

is_complete_state(data) ==
    Cardinality(complete_state_indicators \cap DOMAIN data) >= 2

\* the branch `if is_complete_state and (current_time -
\* self.last_complete_update) >= self.min_complete_update_interval`
AcceptCompleteMerging(self, data, current_time) ==
    [self EXCEPT !.last_complete_update = current_time,
                 !.ws_last_data = Update(self.ws_last_data, data),
                 !.ws_temp_data = EmptyDict,
                 !.received_complete_state = TRUE,
                 !.last_data_update = current_time]

AcceptComplete(self, data, current_time) ==
    [self EXCEPT !.last_complete_update = current_time,
                 !.ws_last_data = data,
                 !.ws_temp_data = EmptyDict,
                 !.received_complete_state = TRUE,
                 !.last_data_update = current_time]

\* self.ws_temp_data.update(data)
AccumulatePartial(self, data) ==
    [self EXCEPT !.ws_temp_data = Update(self.ws_temp_data, data)]

\* the branch `if self.ws_last_data and (current_time -
\* self.last_data_update) >= 1`
FoldPartialReplacing(self, current_time) ==
    [self EXCEPT !.ws_last_data = self.ws_temp_data,
                 !.ws_temp_data = EmptyDict,
                 !.last_data_update = current_time]

FoldPartial(self, current_time) ==
    [self EXCEPT !.ws_last_data = Update(self.ws_last_data, self.ws_temp_data),
                 !.ws_temp_data = EmptyDict,
                 !.last_data_update = current_time]

\* a partial is folded as soon as there is a base snapshot
MergePathWithoutDwell(self, message, current_time) ==
    IF message.kind # "dict" THEN "none"
    ELSE IF /\ is_complete_state(message.data)
            /\ current_time - self.last_complete_update >= min_complete_update_interval
         THEN "complete"
    ELSE IF self.ws_last_data # EmptyDict
         THEN "fold"
    ELSE "accumulate"

\* a complete fragment is accepted whenever it arrives
MergePathWithoutThrottle(self, message, current_time) ==
    IF message.kind # "dict" THEN "none"
    ELSE IF is_complete_state(message.data)
         THEN "complete"
    ELSE IF /\ self.ws_last_data # EmptyDict
            /\ current_time - self.last_data_update >= min_merge_interval
         THEN "fold"
    ELSE "accumulate"

\* The branch the body of on_message takes for a frame.
MergePath(self, message, current_time) ==
    IF message.kind # "dict" THEN "none"
    ELSE IF /\ is_complete_state(message.data)
            /\ current_time - self.last_complete_update >= min_complete_update_interval
         THEN "complete"
    ELSE IF /\ self.ws_last_data # EmptyDict
            /\ current_time - self.last_data_update >= min_merge_interval
         THEN "fold"
    ELSE "accumulate"

\* on_message between setting and clearing update_in_progress
ProcessFragment(self, message, current_time) ==
    LET path == MergePath(self, message, current_time)
    IN IF path = "none" THEN self
       ELSE IF path = "complete"
            THEN AcceptComplete(self, message.data, current_time)
       ELSE IF path = "fold"
            THEN FoldPartial(AccumulatePartial(self, message.data), current_time)
       ELSE AccumulatePartial(self, message.data)

\* `if not self.ws_keep_connection: threading.Timer(2.0,
\* self.close_websocket).start()` in the complete branch
StartsCloseTimer(self, message, current_time) ==
    /\ MergePath(self, message, current_time) = "complete"
    /\ ~self.ws_keep_connection

\* on_message as a whole, for the frame and the time it read at its start
on_message(self, message, current_time) ==
    IF message.kind = "invalid"
    THEN [self EXCEPT !.update_in_progress = FALSE]
    ELSE IF self.update_in_progress THEN self
    ELSE [ProcessFragment([self EXCEPT !.update_in_progress = TRUE],
                          message, current_time)
            EXCEPT !.update_in_progress = FALSE]

on_error(self) == [self EXCEPT !.ws_connected = FALSE, !.ws = NoWs]

on_close(self) == [self EXCEPT !.ws = NoWs, !.ws_connected = FALSE]

\* on_open that leaves last_complete_update as the last connection set it
OnOpenKeepsThrottle(self) ==
    [self EXCEPT !.ws_connected = TRUE,
                 !.ws_last_data = EmptyDict,
                 !.ws_temp_data = EmptyDict,
                 !.last_data_update = 0,
                 !.update_in_progress = FALSE]

on_open(self) ==
    [self EXCEPT !.ws_connected = TRUE,
                 !.ws_last_data = EmptyDict,
                 !.ws_temp_data = EmptyDict,
                 !.last_complete_update = 0,
                 !.last_data_update = 0,
                 !.update_in_progress = FALSE]

\* connect_websocket, "Reset state flags"
ResetStateFlags(self, keep_connection) ==
    [self EXCEPT !.ws_connected = FALSE,
                 !.received_complete_state = FALSE,
                 !.ws_last_data = EmptyDict,
                 !.ws_temp_data = EmptyDict,
                 !.ws_keep_connection = keep_connection]

\* connect_websocket, `self.ws = ws`
StoreWebSocket(self, ws) == [self EXCEPT !.ws = ws]

\* run_websocket after its loop
ThreadEnding(self) ==
    [self EXCEPT !.ws = NoWs, !.ws_connected = FALSE, !.update_in_progress = FALSE]

\* close_websocket, "Set flags first to prevent reconnection attempts"
CloseFlags(self) ==
    [self EXCEPT !.ws_connected = FALSE, !.ws_keep_connection = FALSE]

\* close_websocket, `if hasattr(ws, 'sock') and ws.sock: ws.close()`: a
\* WebSocketApp that has not connected yet has no sock and is not closed
CloseSocket(conns, ws) ==
    IF conns[ws].sock = "open" THEN [conns EXCEPT ![ws].sock = "closed"] ELSE conns

\* close_websocket, "Clear the websocket instance"
CloseClear(self) == [self EXCEPT !.ws = NoWs, !.update_in_progress = FALSE]

\* close_websocket as a whole
close_websocket(self) == IF self.ws = NoWs THEN self ELSE CloseClear(CloseFlags(self))

\* close_websocket, then on_close and the end of run_websocket
Closed(self) == ThreadEnding(on_close(close_websocket(self)))

\* get_state, "Check if we already have WebSocket data": the cached snapshot
\* it returns, or None when it goes on to connect or to the REST request
CachedState(self) ==
    IF self.ws_connected /\ self.ws_last_data # EmptyDict
    THEN self.ws_last_data
    ELSE None

\* the state of the client after construction, with no thread and no timer
NewConnection == [sock |-> "none", merged |-> FALSE, inbox |-> <<>>]
IdleMain == [pc |-> "idle", keep_connection |-> FALSE, return |-> "idle"]
NoThread == [pc |-> "dead", ws |-> NoWs, message |-> NoMessage, current_time |-> 0,
             deferred |-> FALSE]
IdleTimer == [pc |-> "idle", by |-> NoWs]

\* the Thread objects that can be alive at once
MaxThreads == 2
Threads == 1..MaxThreads

\* Thread.is_alive()
is_alive(pool, t) == pool[t].pc # "dead"

\* connect_websocket, `if not self.ws_thread or not self.ws_thread.is_alive()`
StartsThreadAlways(self, pool) == TRUE

StartsThread(self, pool) ==
    self.ws_thread = NoWs \/ ~is_alive(pool, self.ws_thread)

\* threading.Thread(target=run_websocket): a Thread object that is not one
\* of the live ones
NewThread(pool) ==
    CHOOSE t \in DOMAIN pool :
        ~is_alive(pool, t) /\ \A u \in DOMAIN pool : u < t => is_alive(pool, u)

\* `self.ws_thread = threading.Thread(...)`
StoreThread(self, t) == [self EXCEPT !.ws_thread = t]

\* time.time() when the plugin starts, and the timers a behaviour may hold
StartTime == 100
MaxTimers == 1

\* _load_device_mapping, `self.device_unit_mapping[key] = unit`: the registry
\* is read in the order of its units, a later unit replaces an earlier one
LoadDeviceUnitMapping(D) ==
    [key \in {LoadedKey(D[u].Description) : u \in LoadedUnits(D)} |->
        CHOOSE u \in LoadedUnits(D) :
            /\ LoadedKey(D[u].Description) = key
            /\ \A w \in LoadedUnits(D) : LoadedKey(D[w].Description) = key => w <= u]

\* BasePlugin.__init__ (ws_initialized and last_device_update are only
\* written)
NewBasePlugin ==
    [started |-> FALSE,
     run_again |-> 6,
     use_websocket |-> TRUE,
     last_websocket_update |-> 0,
     last_data |-> None,
     last_data_hash |-> None,
     ws_retry_count |-> 0,
     last_ws_reconnect |-> 0,
     update_in_progress |-> FALSE]

IdleHeartbeat == [pc |-> "idle", current_time |-> 0]
MaxHeartbeats == 2

\* the failed connection attempts that are told apart
MaxFailures == 6

\* connect_websocket returned False this many times in a row, after the calls
\* a handler made in the order of its log
RECURSIVE FailuresAfter(_, _)
FailuresAfter(n, log) ==
    IF log = <<>> THEN n
    ELSE FailuresAfter(IF Head(log).ev # "connect" THEN n
                       ELSE IF Head(log).ok THEN 0
                       ELSE IF n < MaxFailures THEN n + 1 ELSE n,
                       Tail(log))

InitPlugin ==
    /\ plugin = NewBasePlugin
    /\ hb = [i \in 1..MaxHeartbeats |-> IdleHeartbeat]
    /\ failures = 0

InitApi ==
    /\ api = NewEVCCApi
    /\ connections = <<>>
    /\ main = IdleMain
    /\ thread = [t \in Threads |-> NoThread]
    /\ timers = [i \in 1..MaxTimers |-> IdleTimer]
    /\ now = StartTime

-----------------------------------------------------------------------------
(* The update scheduler BasePlugin.onStart / onHeartbeat (plugin.py) and    *)
(* EVCCApi.get_state (api.py), each call with the outcomes the controller   *)
(* chooses: whether a connection attempt succeeds, the frame that arrives   *)
(* right after a connect, the answer to GET /state.                         *)

max_ws_retries == 3
ws_reconnect_interval == 60
min_websocket_update_interval == 5
DEFAULT_UPDATE_INTERVAL == 60

\* the WebSocketApp and Thread a handler-level behaviour works with
TheWs == 1

\* keys of the flat shape: "loadpoints.0.mode" starts with "loadpoints."
FlatLoadpointKeys == {"loadpoints.0.mode"}
has_loadpoint_prefix(data) == \E k \in DOMAIN data : k \in FlatLoadpointKeys

\* The frames of the stream: a complete flat snapshot with either value, and
\* a complete one without loadpoint keys.
StreamValues == {1, 2}
StreamMessages ==
    {[kind |-> "dict", data |-> [k \in {"pvPower", "homePower", "loadpoints.0.mode"} |-> v]] :
        v \in StreamValues}
    \cup {[kind |-> "dict", data |-> [k \in {"pvPower", "homePower"} |-> 1]]}

\* a "site" with "batteryMode": null, for which update_battery_devices
\* raises AttributeError at `site_data["batteryMode"].lower()` (the registry
\* has the battery mode device)
SiteWithNullBatteryMode == 0

\* The nested states GET /state answers with, and its answers
RestStates ==
    {[k \in {"site", "loadpoints"} |-> v] : v \in StreamValues}
    \cup {[k \in {"site", "loadpoints"} |->
              IF k = "site" THEN SiteWithNullBatteryMode ELSE 1]}
RestResponses ==
    {[kind |-> "status", code |-> HTTP_OK, result |-> s] : s \in RestStates}
    \cup {[kind |-> "status", code |-> HTTP_ERROR, result |-> None],
          [kind |-> "exception", code |-> 0, result |-> None]}

\* `if state:` / `if self.api.ws_last_data:` / `if not self.last_data:`
Truthy(data) == data # None /\ data # EmptyDict

\* json.dumps(data, sort_keys=True): the items in the order of their keys
JsonDumps(data) == {<<k, data[k]>> : k \in DOMAIN data}

\* hash(str), of the strings json.dumps makes
Hash(s) == [hash |-> s]

\* connect_websocket(keep_connection) as a whole: close_websocket, the reset,
\* the new WebSocketApp and thread, and within the wait either on_open or
\* on_error, on_close and the end of the thread; then a frame, if one comes
\* before the caller goes on
connect_websocket(self, keep_connection, outcome, message, current_time) ==
    LET stored == StoreThread(StoreWebSocket(
                      ResetStateFlags(Closed(self), keep_connection), TheWs), 1)
    IN IF outcome = "connected"
       THEN IF message = NoMessage THEN on_open(stored)
            ELSE on_message(on_open(stored), message, current_time)
       ELSE ThreadEnding(on_close(on_error(stored)))

\* the close timer on_message starts in that call
ConnectStartsTimer(self, keep_connection, outcome, message, current_time) ==
    /\ outcome = "connected"
    /\ message # NoMessage
    /\ StartsCloseTimer(on_open(StoreWebSocket(
           ResetStateFlags(Closed(self), keep_connection), TheWs)), message, current_time)

\* get_state(): the state it returns, how it got it, the connection attempts
\* it made and the client afterwards
get_state(self, outcome, message, resp, current_time) ==
    IF self.ws_connected /\ self.ws_last_data # EmptyDict
    THEN [state |-> self.ws_last_data, via |-> "cached", log |-> <<>>,
          timer |-> FALSE, api |-> self]
    ELSE LET tried == ~self.ws_connected
             after == IF tried
                      THEN connect_websocket(self, FALSE, outcome, message, current_time)
                      ELSE self
             timer == tried /\ ConnectStartsTimer(self, FALSE, outcome, message,
                                                  current_time)
             log == IF tried
                    THEN <<[ev |-> "connect", keep_connection |-> FALSE,
                            ok |-> after.ws_connected]>>
                    ELSE <<>>
         IN IF tried /\ after.ws_connected /\ after.ws_last_data # EmptyDict
            THEN [state |-> after.ws_last_data, via |-> "new", log |-> log,
                  timer |-> timer, api |-> after]
            ELSE IF tried /\ ~after.ws_connected /\ after.ws_last_data # EmptyDict
            THEN [state |-> after.ws_last_data, via |-> "one_time", log |-> log,
                  timer |-> timer, api |-> after]
            ELSE [state |-> IF resp.kind = "status" /\ resp.code = HTTP_OK
                            THEN resp.result ELSE None,
                  via |-> "rest",
                  log |-> log \o <<[ev |-> "request",
                                     ok |-> resp.kind = "status" /\ resp.code = HTTP_OK]>>,
                  timer |-> timer, api |-> after]

\* _initialize_websocket without `self.last_ws_reconnect = time.time()`
InitializeKeepsReconnectTime(p, self, outcome, message, current_time) ==
    LET after == connect_websocket(self, TRUE, outcome, message, current_time)
        ok == after.ws_connected
    IN [plugin |-> IF ok
                   THEN [p EXCEPT !.ws_retry_count = 0]
                   ELSE IF p.ws_retry_count < max_ws_retries
                   THEN [p EXCEPT !.ws_retry_count = @ + 1]
                   ELSE [p EXCEPT !.use_websocket = FALSE],
        api |-> after,
        ok |-> ok,
        log |-> <<[ev |-> "connect", keep_connection |-> TRUE, ok |-> ok]>>]

\* _initialize_websocket: the plugin and the client afterwards, what it
\* returns and the connection attempt it made
initialize_websocket(p, self, outcome, message, current_time) ==
    LET after == connect_websocket(self, TRUE, outcome, message, current_time)
        ok == after.ws_connected
    IN [plugin |-> IF ok
                   THEN [p EXCEPT !.ws_retry_count = 0,
                                  !.last_ws_reconnect = current_time]
                   ELSE IF p.ws_retry_count < max_ws_retries
                   THEN [p EXCEPT !.ws_retry_count = @ + 1]
                   ELSE [p EXCEPT !.use_websocket = FALSE],
        api |-> after,
        ok |-> ok,
        log |-> <<[ev |-> "connect", keep_connection |-> TRUE, ok |-> ok]>>]

\* _update_devices_from_websocket_data / _update_devices_from_rest_api_data:
\* the call, which is made with self.last_data, and whether the routine
\* finds anything of its shape in it to write
UpdateEvent(path, data) ==
    [ev |-> "update", path |-> path,
     writes |-> IF path = "websocket" THEN TRUE
                ELSE "site" \in DOMAIN data \/ "loadpoints" \in DOMAIN data,
     raises |-> /\ path = "rest"
                /\ "site" \in DOMAIN data
                /\ data["site"] = SiteWithNullBatteryMode]

\* a fetch that succeeds turns the stream regime on again
UpdateDevicesRestResumesStream(p, self, outcome, message, resp, current_time) ==
    LET got == get_state(self, outcome, message, resp, current_time)
    IN [plugin |-> IF Truthy(got.state)
                   THEN [p EXCEPT !.last_data = got.state, !.use_websocket = TRUE]
                   ELSE p,
        api |-> got.api,
        timer |-> got.timer,
        via |-> got.via,
        log |-> got.log \o (IF Truthy(got.state)
                            THEN <<UpdateEvent("rest", got.state)>> ELSE <<>>)]

\* update_devices_rest
update_devices_rest(p, self, outcome, message, resp, current_time) ==
    LET got == get_state(self, outcome, message, resp, current_time)
    IN [plugin |-> IF Truthy(got.state) THEN [p EXCEPT !.last_data = got.state] ELSE p,
        api |-> got.api,
        timer |-> got.timer,
        via |-> got.via,
        log |-> got.log \o (IF Truthy(got.state)
                            THEN <<UpdateEvent("rest", got.state)>> ELSE <<>>)]

\* update_devices
update_devices(p) ==
    IF ~Truthy(p.last_data) THEN <<>>
    ELSE IF has_loadpoint_prefix(p.last_data)
    THEN <<UpdateEvent("websocket", p.last_data)>>
    ELSE <<UpdateEvent("rest", p.last_data)>>

\* onHeartbeat, the stream regime from "Check if we have new WebSocket data"
ApplyStreamData(p, self, current_time) ==
    LET current_hash == Hash(JsonDumps(self.ws_last_data))
        taken == [p EXCEPT !.last_data = self.ws_last_data,
                           !.last_data_hash = current_hash,
                           !.last_websocket_update = current_time]
    IN IF /\ self.ws_connected
          /\ self.ws_last_data # EmptyDict
          /\ current_hash # p.last_data_hash
          /\ current_time - p.last_websocket_update >= min_websocket_update_interval
       THEN [plugin |-> [taken EXCEPT !.ws_retry_count = 0],
             log |-> update_devices(taken)]
       ELSE [plugin |-> p, log |-> <<>>]

\* onHeartbeat, `if self.update_in_progress: return`
SkipsNoHeartbeat(p) == FALSE

SkipsHeartbeat(p) == p.update_in_progress

\* onHeartbeat from `self.update_in_progress = True` to its return, for the
\* current_time it read at its start and the time now
HeartbeatCycle(p, self, current_time, outcome, message, resp, tnow) ==
    LET busy == [p EXCEPT !.update_in_progress = TRUE]
        Done(q, a, log, timer, branch) ==
            [plugin |-> [q EXCEPT !.update_in_progress = FALSE],
             api |-> a, log |-> log, timer |-> timer, branch |-> branch]
    IN IF busy.use_websocket
       THEN IF current_time - busy.last_ws_reconnect >= ws_reconnect_interval
            THEN LET r == initialize_websocket(busy, self, outcome, message, tnow)
                 IN Done(r.plugin, r.api, r.log, FALSE, "forced")
            ELSE IF ~self.ws_connected /\ busy.ws_retry_count >= max_ws_retries
            THEN LET u == update_devices_rest([busy EXCEPT !.use_websocket = FALSE],
                                              self, outcome, message, resp, tnow)
                 IN Done(u.plugin, u.api, u.log, u.timer, "fallback")
            ELSE LET r == IF ~self.ws_connected
                          THEN initialize_websocket(busy, self, outcome, message, tnow)
                          ELSE [plugin |-> busy, api |-> self, ok |-> TRUE,
                                log |-> <<>>]
                 IN IF ~r.ok
                    THEN Done(r.plugin, r.api, r.log, FALSE, "retry")
                    ELSE LET s == ApplyStreamData(r.plugin, r.api, current_time)
                         IN Done(s.plugin, r.api, r.log \o s.log, FALSE, "stream")
       ELSE LET counted == [busy EXCEPT !.run_again = @ - 1]
            IN IF counted.run_again <= 0
               THEN LET u == update_devices_rest(
                                 [counted EXCEPT !.run_again = DEFAULT_UPDATE_INTERVAL \div 10],
                                 self, outcome, message, resp, tnow)
                    IN Done(u.plugin, u.api, u.log, u.timer, "poll")
               ELSE Done(counted, self, <<>>, FALSE, "wait")

\* onStart from `if self.use_websocket:` on: _initialize_websocket, then
\* _get_initial_state, which creates the devices of the state it gets
StartPlugin(p, self, outcome, outcome2, message, resp, tnow) ==
    LET begun == [p EXCEPT !.started = TRUE]
        r == IF begun.use_websocket
             THEN initialize_websocket(begun, self, outcome, NoMessage, tnow)
             ELSE [plugin |-> begun, api |-> self, ok |-> FALSE, log |-> <<>>]
        got == get_state(r.api, outcome2, message, resp, tnow)
    IN [plugin |-> r.plugin,
        api |-> got.api,
        timer |-> got.timer,
        log |-> r.log \o got.log
                \o (IF Truthy(got.state)
                    THEN <<[ev |-> "create",
                            path |-> IF has_loadpoint_prefix(got.state)
                                     THEN "websocket" ELSE "rest"]>>
                    ELSE <<>>)]

-----------------------------------------------------------------------------
(* The identity resolver: helpers.get_device_unit with create_new, the      *)
(* device ids it is given, and the routines of devices.py and plugin.py     *)
(* that create and update the devices of the vehicles of a payload.         *)

\* A device id is an int (the position the plugin counts, from 1) or a str;
\* a str is held as the pieces value.split(':') gives.
IntId(n) == [is_int |-> TRUE, int |-> n, str |-> <<>>]
StrId(pieces) == [is_int |-> FALSE, int |-> 0, str |-> pieces]
IsInt(device_id) == device_id.is_int

\* ':'.join(pieces)
RECURSIVE JoinColon(_)
JoinColon(pieces) ==
    IF Len(pieces) = 1 THEN pieces[1]
    ELSE pieces[1] \o ":" \o JoinColon(Tail(pieces))

\* f"{device_id}"
IdText(device_id) ==
    IF IsInt(device_id) THEN ToString(device_id.int) ELSE JoinColon(device_id.str)

\* safe_int(value, default=0) inside get_device_unit
safe_int(value) ==
    IF IsInt(value) THEN value.int
    ELSE LET text == IF Len(value.str) > 1 THEN value.str[2] ELSE value.str[1]
         IN IF RaisesValueError(text) THEN 0 ELSE DecimalTexts[text]

\* f"{device_type}_{device_id}_{parameter}", as the words between underscores
DeviceKey(device_type, device_id, parameter) ==
    <<device_type, IdText(device_id)>> \o parameter

UNIT_BASE_SITE == 1
UNIT_BASE_PV == 40
UNIT_BASE_TARIFF == 60
UNIT_BASE_GRID == 80

\* `base_unit = 1` and the if/elif chain over device_type
BaseUnit(device_type, device_id) ==
    IF device_type = "site" THEN UNIT_BASE_SITE
    ELSE IF device_type = "battery"
    THEN UNIT_BASE_BATTERY + safe_int(device_id) * STRIDE_BATTERY
    ELSE IF device_type = "pv" THEN UNIT_BASE_PV + safe_int(device_id) * STRIDE_BATTERY
    ELSE IF device_type = "tariff" THEN UNIT_BASE_TARIFF
    ELSE IF device_type = "grid" THEN UNIT_BASE_GRID
    ELSE IF device_type = "vehicle"
    THEN UNIT_BASE_VEHICLE + safe_int(device_id) * STRIDE_ENTITY
    ELSE IF device_type = "loadpoint"
    THEN UNIT_BASE_LOADPOINT + safe_int(device_id) * STRIDE_ENTITY
    ELSE IF device_type = "session"
    THEN UNIT_BASE_SESSION + safe_int(device_id) * STRIDE_BATTERY
    ELSE 1

\* `while unit in Devices: unit += 1`
NextFreeTakesBase(D, unit) == unit

RECURSIVE NextFree(_, _)
NextFree(D, unit) == IF unit \in DOMAIN D THEN NextFree(D, unit + 1) ELSE unit

\* `device_mapping[key] = unit`: the unit that is stored
StoresBaseUnit(base_unit, unit) == base_unit

StoredUnit(base_unit, unit) == unit

\* get_device_unit(device_mapping, unit_device_mapping, device_type,
\* device_id, parameter, create_new, Devices): what it returns and the two
\* mappings after the call (is_none: it returns None)
get_or_create_device_unit(device_mapping, unit_mapping, D, device_type, device_id, parameter, create_new) ==
    LET key == DeviceKey(device_type, device_id, parameter)
        base_unit == BaseUnit(device_type, device_id)
        unit == NextFree(D, base_unit)
    IN IF key \in DOMAIN device_mapping
       THEN [unit |-> device_mapping[key], is_none |-> FALSE,
             device_mapping |-> device_mapping,
             unit_device_mapping |-> unit_mapping]
       ELSE IF ~create_new
       THEN [unit |-> 0, is_none |-> TRUE,
             device_mapping |-> device_mapping,
             unit_device_mapping |-> unit_mapping]
       ELSE [unit |-> unit, is_none |-> FALSE,
             device_mapping |-> Update(device_mapping,
                                       (key :> StoredUnit(base_unit, unit))),
             unit_device_mapping |-> Update(unit_mapping, (unit :> key))]

\* Type and Subtype of the vehicle devices create_vehicle_devices makes
S_soc == <<"soc">>
DeviceTypeOf(parameter) ==
    IF parameter = S_soc THEN <<TYPE_CUSTOM, SUBTYPE_PERCENTAGE>>
    ELSE <<TYPE_SELECTOR, SUBTYPE_SELECTOR>>

\* `if unit not in Devices: Domoticz.Device(Unit=unit, ...,
\* Description=key, DeviceID=external_id).Create()`
CreateIfMissing(D, unit, key, external_id) ==
    IF unit \in DOMAIN D THEN D
    ELSE Update(D, (unit :> NewDevice(DeviceTypeOf(SubSeq(key, 3, Len(key)))[1],
                                      DeviceTypeOf(SubSeq(key, 3, Len(key)))[2],
                                      key, external_id)))

\* one `unit = get_device_unit(..., True, Devices)` / `if unit not in
\* Devices: ...Create()` block of create_vehicle_devices, on a registry
\* state [Devices, device_mapping, unit_device_mapping]
CreateBlock(reg, vehicle_id, parameter, external_id) ==
    LET got == get_or_create_device_unit(reg.device_mapping, reg.unit_device_mapping,
                                         reg.Devices, "vehicle", IntId(vehicle_id),
                                         parameter, TRUE)
    IN [Devices |-> CreateIfMissing(reg.Devices, got.unit,
                                    DeviceKey("vehicle", IntId(vehicle_id), parameter),
                                    external_id),
        device_mapping |-> got.device_mapping,
        unit_device_mapping |-> got.unit_device_mapping]

\* create_vehicle_devices(vehicle_id, vehicle_data, Devices) for a vehicle
\* without range and odometer: the soc block, then the status block
create_vehicle_devices(reg, vehicle_id, external_id) ==
    CreateBlock(CreateBlock(reg, vehicle_id, S_soc, external_id),
                vehicle_id, S_status, external_id)

\* `vehicle_index = 1` ... `vehicle_index += 1`: the id of the k-th vehicle
\* of data["vehicles"]
VehicleIndexFromZero(k) == k - 1

VehicleIndex(k) == k

\* _process_websocket_data, the loop over data["vehicles"].items(); vehicles
\* is the sequence of its keys
RECURSIVE ProcessVehicles(_, _, _)
ProcessVehicles(reg, vehicles, k) ==
    IF k > Len(vehicles) THEN reg
    ELSE ProcessVehicles(create_vehicle_devices(reg, VehicleIndex(k), vehicles[k]),
                         vehicles, k + 1)

\* update_vehicle_devices(vehicle_id, vehicle_data, Devices) for data with
\* soc and status: the registry afterwards and the units it wrote
UpdateBlock(reg, vehicle_id, parameter, n_value, s_value) ==
    LET got == get_or_create_device_unit(reg.device_mapping, reg.unit_device_mapping,
                                         reg.Devices, "vehicle", IntId(vehicle_id),
                                         parameter, FALSE)
    IN IF got.is_none \/ got.unit \notin DOMAIN reg.Devices
       THEN [reg |-> reg, written |-> {}]
       ELSE [reg |-> [reg EXCEPT !.Devices = update_device_value(reg.Devices, got.unit,
                                                                  n_value, s_value)],
             written |-> {got.unit}]

\* _update_devices_from_websocket_data, the loop over
\* data["vehicles"].items(): the registry afterwards and, for every unit
\* written, the key of data["vehicles"] whose values it got
RECURSIVE UpdateVehiclesFrom(_, _, _, _, _)
UpdateVehiclesFrom(reg, vehicles, k, soc, status) ==
    IF k > Len(vehicles) THEN [reg |-> reg, served |-> {}]
    ELSE LET a == UpdateBlock(reg, VehicleIndex(k), S_soc, 0, soc)
             b == UpdateBlock(a.reg, VehicleIndex(k), S_status,
                              LevelOfVehicleStatus(status), 0)
             rest == UpdateVehiclesFrom(b.reg, vehicles, k + 1, soc, status)
         IN [reg |-> rest.reg,
             served |-> {<<u, vehicles[k]>> : u \in a.written \cup b.written}
                        \cup rest.served]

\* _load_device_mapping: both mappings, from the descriptions
load_device_mapping(D) ==
    [Devices |-> D,
     device_mapping |-> LoadDeviceUnitMapping(D),
     unit_device_mapping |-> LoadUnitDeviceMapping(D)]

\* Type and Subtype of the other devices the create routines make
TYPE_USAGE == 248
SUBTYPE_ELECTRIC == 1
SUBTYPE_KWH == 29
SUBTYPE_COUNTER == 8

\* one `unit = get_device_unit(..., True, Devices)` / `if unit not in
\* Devices: Domoticz.Device(Unit=unit, Type=..., Subtype=...,
\* Description=key, DeviceID=external_id).Create()` block
CreateDevice(reg, device_type, device_id, parameter, type, subtype, external_id) ==
    LET got == get_or_create_device_unit(reg.device_mapping, reg.unit_device_mapping,
                                         reg.Devices, device_type, IntId(device_id),
                                         parameter, TRUE)
    IN [Devices |-> IF got.unit \in DOMAIN reg.Devices THEN reg.Devices
                    ELSE Update(reg.Devices,
                                (got.unit :> NewDevice(type, subtype,
                                                       DeviceKey(device_type, IntId(device_id),
                                                                 parameter),
                                                       external_id))),
        device_mapping |-> got.device_mapping,
        unit_device_mapping |-> got.unit_device_mapping]

\* create_battery_devices(site_data, Devices), for site data without
\* batteryPower
create_battery_devices(reg, site_data) ==
    LET r1 == IF "batterySoc" \in site_data.keys
              THEN CreateDevice(reg, "battery", 1, S_soc, TYPE_CUSTOM,
                                SUBTYPE_PERCENTAGE, "")
              ELSE reg
    IN IF "batteryMode" \in site_data.keys
       THEN CreateDevice(r1, "battery", 1, S_mode, TYPE_SELECTOR, SUBTYPE_SELECTOR, "")
       ELSE r1

\* `if any(key in site_data for key in ["batteryPower", "batterySoc",
\* "batteryMode"])`
HasBatteryKeys(site_data) ==
    site_data.keys \cap {"batteryPower", "batterySoc", "batteryMode"} # {}

\* create_site_devices(site_data, Devices), for site data with gridPower,
\* batterySoc and batteryMode among its keys: the registry afterwards and
\* the battery_present it leaves
create_site_devices(reg, site_data, battery_present) ==
    LET r1 == IF "gridPower" \in site_data.keys
              THEN CreateDevice(reg, "site", 1, <<"grid", "power">>, TYPE_USAGE,
                                SUBTYPE_ELECTRIC, "")
              ELSE reg
    IN IF HasBatteryKeys(site_data)
       THEN [reg |-> create_battery_devices(r1, site_data), battery_present |-> TRUE]
       ELSE [reg |-> r1, battery_present |-> battery_present]

\* create_loadpoint_devices(loadpoint_id, loadpoint_data, Devices), for
\* loadpoint data with mode, phases, minSoc and targetSoc among its keys
create_loadpoint_devices(reg, loadpoint_id, loadpoint_data, external_id) ==
    LET r1 == CreateDevice(reg, "loadpoint", loadpoint_id, <<"charging", "power">>,
                           TYPE_USAGE, SUBTYPE_ELECTRIC, "")
        r2 == CreateDevice(r1, "loadpoint", loadpoint_id, <<"charged", "energy">>,
                           TYPE_CUSTOM, SUBTYPE_KWH, "")
        r3 == CreateDevice(r2, "loadpoint", loadpoint_id, S_mode,
                           TYPE_SELECTOR, SUBTYPE_SELECTOR, external_id)
        r4 == CreateDevice(r3, "loadpoint", loadpoint_id, S_phases,
                           TYPE_SELECTOR, SUBTYPE_SELECTOR, external_id)
        r5 == IF "minSoc" \in loadpoint_data.keys
              THEN CreateDevice(r4, "loadpoint", loadpoint_id, S_min_soc,
                                TYPE_CUSTOM, SUBTYPE_PERCENTAGE, external_id)
              ELSE r4
        r6 == IF "targetSoc" \in loadpoint_data.keys
              THEN CreateDevice(r5, "loadpoint", loadpoint_id, S_target_soc,
                                TYPE_CUSTOM, SUBTYPE_PERCENTAGE, external_id)
              ELSE r5
    IN CreateDevice(r6, "loadpoint", loadpoint_id, <<"charging", "timer">>,
                    TYPE_CUSTOM, SUBTYPE_COUNTER, external_id)

\* `for i, loadpoint in enumerate(loadpoints): loadpoint_id = i + 1`; the
\* k-th loadpoint of the list has i = k - 1
LoadpointIdIsIndex(k) == k - 1

LoadpointId(k) == (k - 1) + 1

\* _process_rest_api_data, the loop over the list state["loadpoints"]
RECURSIVE ProcessLoadpoints(_, _, _)
ProcessLoadpoints(reg, loadpoints, k) ==
    IF k > Len(loadpoints) THEN reg
    ELSE ProcessLoadpoints(
             create_loadpoint_devices(reg, LoadpointId(k), loadpoints[k],
                                      ToString(LoadpointId(k))),
             loadpoints, k + 1)

\* _process_rest_api_data(state), for a state with "site", a list
\* "loadpoints" and "vehicles": []
process_rest_api_data(reg, state, battery_present) ==
    LET s == create_site_devices(reg, state.site, battery_present)
    IN [reg |-> ProcessLoadpoints(s.reg, state.loadpoints, 1),
        battery_present |-> s.battery_present]

\* update_site_devices(site_data, Devices): the gridPower block and
\* update_battery_devices with its batterySoc and batteryMode blocks
update_site_devices(D, site_data) ==
    LET D1 == UpdateField(D, "gridPower" \in site_data.keys,
                          Key("site", 1, <<"grid", "power">>), 0, site_data.gridPower)
        D2 == UpdateField(D1, "batterySoc" \in site_data.keys,
                          Key("battery", 1, S_soc), 0, site_data.batterySoc)
    IN IF "batteryMode" \in site_data.keys
       THEN update_battery_devices(D2, site_data.batteryMode)
       ELSE D2

\* _update_devices_from_rest_api_data, the loop over the list
\* state["loadpoints"]
RECURSIVE UpdateLoadpoints(_, _, _)
UpdateLoadpoints(D, loadpoints, k) ==
    IF k > Len(loadpoints) THEN D
    ELSE UpdateLoadpoints(update_loadpoint_devices(D, LoadpointId(k), loadpoints[k]),
                          loadpoints, k + 1)

\* _update_devices_from_rest_api_data(state)
update_devices_from_rest_api_data(D, state) ==
    UpdateLoadpoints(update_site_devices(D, state.site), state.loadpoints, 1)

-----------------------------------------------------------------------------
(* The command relay and the update writes on a created registry            *)

InitCmd ==
    /\ \E lpId \in LoadpointDeviceIDs, vehId \in VehicleDeviceIDs :
           Devices = CreatedDevices(lpId, vehId)
    /\ unit_device_mapping = LoadUnitDeviceMapping(Devices)
    /\ device_unit_mapping = LoadDeviceUnitMapping(Devices)
    /\ last = [op |-> "init"]
    /\ calls = 0
    /\ InitApi
    /\ InitPlugin

NextCmd ==
    \/ OnCommand
    \/ UpdateLoadpointDevices
    \/ UpdateBatteryDevices
    \/ UpdateVehicleDevices

SpecCmd == InitCmd /\ [][NextCmd]_vars

-----------------------------------------------------------------------------
(* The WebSocket client with its threads: the plugin thread in              *)
(* connect_websocket and close_websocket, the websocket thread in           *)
(* run_websocket and the callbacks run_forever makes, and the timer threads *)
(* of the one-time mode.  A step is a run of statements of one thread.      *)

MaxConnections == 2
MaxWsTicks == 1
MaxInFlight == 1

\* the frames connection ws delivers: they carry the connection's number
ConnectionMessages(ws) == Messages({ws})

\* the frames that arrive while on_message is running: a partial fragment
\* and a complete one
InFlightMessages(ws) ==
    {m \in ConnectionMessages(ws) :
        m.kind = "dict" /\ DOMAIN m.data \in {{"gridPower"}, {"pvPower", "homePower"}}}

FreeTimers == {i \in 1..MaxTimers : timers[i].pc = "idle"}
StartTimer(ws) ==
    [timers EXCEPT ![CHOOSE i \in FreeTimers : TRUE] = [pc |-> "armed", by |-> ws]]

\* connect_websocket(keep_connection) up to the end of close_websocket's
\* `if self.ws:` block
ConnectWebsocket(keep_connection) ==
    /\ main.pc = "idle"
    /\ Len(connections) < MaxConnections
    /\ IF api.ws = NoWs
       THEN /\ main' = [pc |-> "reset", keep_connection |-> keep_connection,
                        return |-> "idle"]
            /\ UNCHANGED <<api, connections>>
       ELSE /\ api' = CloseFlags(api)
            /\ connections' = CloseSocket(connections, api.ws)
            /\ main' = [pc |-> "clear", keep_connection |-> keep_connection,
                        return |-> "reset"]
    /\ UNCHANGED <<thread, timers, now, cmdVars, hbVars>>

\* close_websocket called by the plugin (_initialize_websocket, logout)
CloseWebsocket ==
    /\ main.pc = "idle"
    /\ api.ws # NoWs
    /\ api' = CloseFlags(api)
    /\ connections' = CloseSocket(connections, api.ws)
    /\ main' = [pc |-> "clear", keep_connection |-> FALSE, return |-> "idle"]
    /\ UNCHANGED <<thread, timers, now, cmdVars, hbVars>>

MainCloseClear ==
    /\ main.pc = "clear"
    /\ api' = CloseClear(api)
    /\ main' = [main EXCEPT !.pc = main.return, !.return = "idle"]
    /\ UNCHANGED <<connections, thread, timers, now, cmdVars, hbVars>>

ConnectReset ==
    /\ main.pc = "reset"
    /\ api' = ResetStateFlags(api, main.keep_connection)
    /\ main' = [main EXCEPT !.pc = "create"]
    /\ UNCHANGED <<connections, thread, timers, now, cmdVars, hbVars>>

ConnectCreate ==
    /\ main.pc = "create"
    /\ connections' = Append(connections, NewConnection)
    /\ api' = StoreWebSocket(api, Len(connections) + 1)
    /\ main' = [main EXCEPT !.pc = "start"]
    /\ UNCHANGED <<thread, timers, now, cmdVars, hbVars>>

\* `if not self.ws_thread or not self.ws_thread.is_alive()`, and the wait for
\* ws_connected, which ends at the latest after ten seconds
ConnectStart ==
    /\ main.pc = "start"
    /\ IF StartsThread(api, thread)
       THEN /\ \E t \in Threads : ~is_alive(thread, t)
            /\ api' = StoreThread(api, NewThread(thread))
            /\ thread' = [thread EXCEPT ![NewThread(thread)] =
                                            [NoThread EXCEPT !.pc = "check"]]
       ELSE UNCHANGED <<api, thread>>
    /\ main' = IdleMain
    /\ UNCHANGED <<connections, timers, now, cmdVars, hbVars>>

\* run_websocket: `if not self.ws: break`, else self.ws.run_forever()
ThreadCheck(t) ==
    /\ thread[t].pc = "check"
    /\ thread' = IF api.ws = NoWs
                 THEN [thread EXCEPT ![t].pc = "ending"]
                 ELSE [thread EXCEPT ![t].pc = "connecting", ![t].ws = api.ws]
    /\ UNCHANGED <<api, connections, main, timers, now, cmdVars, hbVars>>

\* run_forever connects and calls on_open
ThreadConnected(t) ==
    /\ thread[t].pc = "connecting"
    /\ connections' = [connections EXCEPT ![thread[t].ws] =
                                          [NewConnection EXCEPT !.sock = "open"]]
    /\ api' = on_open(api)
    /\ thread' = [thread EXCEPT ![t].pc = "dispatch"]
    /\ UNCHANGED <<main, timers, now, cmdVars, hbVars>>

\* run_forever cannot connect: on_error, on_close, and it returns
ThreadConnectFails(t) ==
    /\ thread[t].pc = "connecting"
    /\ api' = on_close(on_error(api))
    /\ thread' = [thread EXCEPT ![t].pc = "returned"]
    /\ UNCHANGED <<connections, main, timers, now, cmdVars, hbVars>>

\* the connection breaks: on_error, on_close, and run_forever returns
ThreadConnectionLost(t) ==
    /\ thread[t].pc = "dispatch"
    /\ connections[thread[t].ws].sock = "open"
    /\ connections' = [connections EXCEPT ![thread[t].ws].sock = "closed",
                                          ![thread[t].ws].inbox = <<>>]
    /\ api' = on_close(on_error(api))
    /\ thread' = [thread EXCEPT ![t].pc = "returned"]
    /\ UNCHANGED <<main, timers, now, cmdVars, hbVars>>

\* the socket was closed by ws.close(): on_close, and run_forever returns
ThreadSocketClosed(t) ==
    /\ thread[t].pc = "dispatch"
    /\ connections[thread[t].ws].sock = "closed"
    /\ connections' = [connections EXCEPT ![thread[t].ws].inbox = <<>>]
    /\ api' = on_close(api)
    /\ thread' = [thread EXCEPT ![t].pc = "returned"]
    /\ UNCHANGED <<main, timers, now, cmdVars, hbVars>>

\* on_message, `finally: self.update_in_progress = False`
OnMessageLeavesFlag(self) == self

OnMessageClearsFlag(self) == [self EXCEPT !.update_in_progress = FALSE]

\* on_message up to `self.update_in_progress = True`, for a frame run_forever
\* has read from the socket
EnterOnMessage(t, message, deferred) ==
    IF message.kind = "invalid"
    THEN /\ api' = [api EXCEPT !.update_in_progress = FALSE]
         /\ UNCHANGED thread
    ELSE IF api.update_in_progress
    THEN UNCHANGED <<api, thread>>
    ELSE /\ api' = [api EXCEPT !.update_in_progress = TRUE]
         /\ thread' = [thread EXCEPT ![t].pc = "process", ![t].message = message,
                                     ![t].current_time = now,
                                     ![t].deferred = deferred]

\* a frame arrives while the websocket thread waits in run_forever
OnMessageEnter(t, message) ==
    /\ thread[t].pc = "dispatch"
    /\ connections[thread[t].ws].sock = "open"
    /\ connections[thread[t].ws].inbox = <<>>
    /\ EnterOnMessage(t, message, FALSE)
    /\ UNCHANGED <<connections, main, timers, now, cmdVars, hbVars>>

\* a frame arrives while the websocket thread is inside on_message: the
\* socket holds it until run_forever reads again
FrameArrives(t, message) ==
    /\ thread[t].pc \in {"process", "finally"}
    /\ connections[thread[t].ws].sock = "open"
    /\ Len(connections[thread[t].ws].inbox) < MaxInFlight
    /\ connections' = [connections EXCEPT ![thread[t].ws].inbox = Append(@, message)]
    /\ UNCHANGED <<api, main, thread, timers, now, cmdVars, hbVars>>

\* run_forever reads the oldest frame the socket holds and calls on_message
OnMessageDeferred(t) ==
    /\ thread[t].pc = "dispatch"
    /\ connections[thread[t].ws].sock = "open"
    /\ connections[thread[t].ws].inbox # <<>>
    /\ EnterOnMessage(t, Head(connections[thread[t].ws].inbox), TRUE)
    /\ connections' = [connections EXCEPT ![thread[t].ws].inbox = Tail(@)]
    /\ UNCHANGED <<main, timers, now, cmdVars, hbVars>>

\* on_message, the try block
OnMessageProcess(t) ==
    /\ thread[t].pc = "process"
    /\ api' = ProcessFragment(api, thread[t].message, thread[t].current_time)
    /\ IF StartsCloseTimer(api, thread[t].message, thread[t].current_time)
       THEN FreeTimers # {} /\ timers' = StartTimer(thread[t].ws)
       ELSE UNCHANGED timers
    /\ connections' = IF thread[t].message.kind = "dict"
                      THEN [connections EXCEPT ![thread[t].ws].merged = TRUE]
                      ELSE connections
    /\ thread' = [thread EXCEPT ![t].pc = "finally", ![t].message = NoMessage,
                                   ![t].current_time = 0]
    /\ UNCHANGED <<main, now, cmdVars, hbVars>>

\* on_message, `finally: self.update_in_progress = False`
OnMessageFinally(t) ==
    /\ thread[t].pc = "finally"
    /\ api' = OnMessageClearsFlag(api)
    /\ thread' = [thread EXCEPT ![t].pc = "dispatch", ![t].deferred = FALSE]
    /\ UNCHANGED <<connections, main, timers, now, cmdVars, hbVars>>

\* run_websocket after run_forever: the exit conditions, else the sleep
ThreadAfterRun(t) ==
    /\ thread[t].pc = "returned"
    /\ thread' = [thread EXCEPT ![t].pc = IF ~api.ws_keep_connection \/ api.ws = NoWs
                                       THEN "ending" ELSE "check"]
    /\ UNCHANGED <<api, connections, main, timers, now, cmdVars, hbVars>>

ThreadEnds(t) ==
    /\ thread[t].pc = "ending"
    /\ api' = ThreadEnding(api)
    /\ thread' = [thread EXCEPT ![t] = NoThread]
    /\ UNCHANGED <<connections, main, timers, now, cmdVars, hbVars>>

\* threading.Timer(2.0, self.close_websocket) runs close_websocket
TimerFires(i) ==
    /\ timers[i].pc = "armed"
    /\ IF api.ws = NoWs
       THEN /\ timers' = [timers EXCEPT ![i] = IdleTimer]
            /\ UNCHANGED <<api, connections>>
       ELSE /\ api' = CloseFlags(api)
            /\ connections' = CloseSocket(connections, api.ws)
            /\ timers' = [timers EXCEPT ![i].pc = "clear"]
    /\ UNCHANGED <<main, thread, now, cmdVars, hbVars>>

TimerCloseClear(i) ==
    /\ timers[i].pc = "clear"
    /\ api' = CloseClear(api)
    /\ timers' = [timers EXCEPT ![i] = IdleTimer]
    /\ UNCHANGED <<connections, main, thread, now, cmdVars, hbVars>>

WsTick ==
    /\ now < StartTime + MaxWsTicks
    /\ now' = now + 1
    /\ UNCHANGED <<api, connections, main, thread, timers, cmdVars, hbVars>>

InitWs ==
    /\ Devices = CreatedDevices("", "")
    /\ unit_device_mapping = LoadUnitDeviceMapping(Devices)
    /\ device_unit_mapping = LoadDeviceUnitMapping(Devices)
    /\ last = [op |-> "init"]
    /\ calls = 0
    /\ InitApi
    /\ InitPlugin

NextWs ==
    \/ \E keep_connection \in BOOLEAN : ConnectWebsocket(keep_connection)
    \/ CloseWebsocket
    \/ MainCloseClear
    \/ ConnectReset
    \/ ConnectCreate
    \/ ConnectStart
    \/ \E t \in Threads : ThreadCheck(t)
    \/ \E t \in Threads : ThreadConnected(t)
    \/ \E t \in Threads : ThreadConnectFails(t)
    \/ \E t \in Threads : ThreadConnectionLost(t)
    \/ \E t \in Threads : ThreadSocketClosed(t)
    \/ \E t \in Threads : \E message \in ConnectionMessages(thread[t].ws) :
           OnMessageEnter(t, message)
    \/ \E t \in Threads : \E message \in InFlightMessages(thread[t].ws) :
           FrameArrives(t, message)
    \/ \E t \in Threads : OnMessageDeferred(t)
    \/ \E t \in Threads : OnMessageProcess(t)
    \/ \E t \in Threads : OnMessageFinally(t)
    \/ \E t \in Threads : ThreadAfterRun(t)
    \/ \E t \in Threads : ThreadEnds(t)
    \/ \E i \in 1..MaxTimers : TimerFires(i)
    \/ \E i \in 1..MaxTimers : TimerCloseClear(i)
    \/ WsTick

SpecWs == InitWs /\ [][NextWs]_vars

\* The client with the steps a running thread takes by itself: a thread that
\* is inside on_message goes on to the end of the try block and to the
\* finally clause, and a timer thread that has started runs close_websocket
\* to its end.
SpecWsLive ==
    /\ InitWs
    /\ [][NextWs]_vars
    /\ \A t \in Threads : WF_vars(OnMessageProcess(t))
    /\ \A t \in Threads : WF_vars(OnMessageFinally(t))
    /\ \A i \in 1..MaxTimers : WF_vars(TimerFires(i))
    /\ \A i \in 1..MaxTimers : WF_vars(TimerCloseClear(i))

-----------------------------------------------------------------------------
(* The WebSocket client as the callbacks of a connection see it, one whole  *)
(* handler after the other: connect_websocket until on_open has run, each   *)
(* on_message from its first statement to its last, close_websocket until   *)
(* the websocket thread has ended.                                          *)

MaxTicks == 5
MergeValues == {1, 2}

\* The frames of one connection: a fragment for every set of keys, and a
\* second value for the key that is no indicator.
MergeMessages ==
    {m \in Messages(MergeValues) :
        m.kind = "dict" =>
            \A k \in DOMAIN m.data : m.data[k] = 1 \/ DOMAIN m.data = {"gridPower"}}

AllClosed == [ws \in DOMAIN connections |-> [connections[ws] EXCEPT !.sock = "closed"]]

MergeConnect(keep_connection) ==
    /\ Len(connections) < MaxConnections
    /\ api' = on_open(StoreThread(
                   StoreWebSocket(ResetStateFlags(Closed(api), keep_connection),
                                  Len(connections) + 1), 1))
    /\ connections' = Append(AllClosed, [NewConnection EXCEPT !.sock = "open"])
    /\ thread' = [thread EXCEPT ![1] = [NoThread EXCEPT !.pc = "dispatch",
                                                        !.ws = Len(connections) + 1]]
    /\ last' = [op |-> "connect_websocket", keep_connection |-> keep_connection]
    /\ UNCHANGED <<main, timers, now, Devices, unit_device_mapping, calls,
                 device_unit_mapping, hbVars>>

MergeMessage(message) ==
    /\ thread[1].pc = "dispatch"
    /\ api' = on_message(api, message, now)
    /\ IF StartsCloseTimer(api, message, now)
       THEN FreeTimers # {} /\ timers' = StartTimer(thread[1].ws)
       ELSE UNCHANGED timers
    /\ connections' = IF message.kind = "dict"
                      THEN [connections EXCEPT ![thread[1].ws].merged = TRUE]
                      ELSE connections
    /\ last' = [op |-> "on_message", message |-> message,
                path |-> MergePath(api, message, now),
                before |-> api.ws_last_data]
    /\ UNCHANGED <<main, thread, now, Devices, unit_device_mapping, calls,
                 device_unit_mapping, hbVars>>

MergeClose ==
    /\ thread[1].pc = "dispatch"
    /\ api' = Closed(api)
    /\ connections' = AllClosed
    /\ thread' = [thread EXCEPT ![1] = NoThread]
    /\ last' = [op |-> "close_websocket"]
    /\ UNCHANGED <<main, timers, now, Devices, unit_device_mapping, calls,
                 device_unit_mapping, hbVars>>

MergeTimerFires(i) ==
    /\ timers[i].pc = "armed"
    /\ timers' = [timers EXCEPT ![i] = IdleTimer]
    /\ api' = Closed(api)
    /\ connections' = AllClosed
    /\ thread' = [thread EXCEPT ![1] = NoThread]
    /\ last' = [op |-> "close_websocket"]
    /\ UNCHANGED <<main, now, Devices, unit_device_mapping, calls,
                 device_unit_mapping, hbVars>>

MergeTick ==
    /\ now < StartTime + MaxTicks
    /\ now' = now + 1
    /\ UNCHANGED <<api, connections, main, thread, timers, cmdVars, hbVars>>

NextMerge ==
    \/ \E keep_connection \in BOOLEAN : MergeConnect(keep_connection)
    \/ \E message \in MergeMessages : MergeMessage(message)
    \/ MergeClose
    \/ \E i \in 1..MaxTimers : MergeTimerFires(i)
    \/ MergeTick

SpecMerge == InitWs /\ [][NextMerge]_vars

\* The merge with the steps that happen by themselves: the clock advances
\* and an armed close timer fires. Whether the controller sends another
\* frame, and whether the plugin connects or closes, is not up to the client.
SpecMergeLive ==
    /\ InitWs
    /\ [][NextMerge]_vars
    /\ WF_vars(MergeTick)
    /\ WF_vars(\E i \in 1..MaxTimers : MergeTimerFires(i))

-----------------------------------------------------------------------------
(* The update scheduler: the host calls onStart and then onHeartbeat, and   *)
(* may call onHeartbeat again before an earlier call has returned; the      *)
(* stream delivers frames, breaks, and is closed by the one-time timer.     *)
(* A call of onHeartbeat is two steps, up to `self.update_in_progress =     *)
(* True` and from there to its return.                                      *)

MaxHbTicks == 1
TickSeconds == DEFAULT_UPDATE_INTERVAL

ConnectOutcomes == {"connected", "failed"}

\* what arrives between on_open and the caller's next statement: nothing, or
\* the first complete snapshot
FirstFrames ==
    {NoMessage} \cup {m \in StreamMessages : m.data = [k \in DOMAIN m.data |-> 1]
                                              /\ has_loadpoint_prefix(m.data)}

\* the timer a handler starts, when it starts one
HandlerTimer(starts) ==
    /\ starts => FreeTimers # {}
    /\ timers' = IF starts THEN StartTimer(TheWs) ELSE timers

OnStart ==
    /\ ~plugin.started
    /\ \E outcome \in ConnectOutcomes, outcome2 \in ConnectOutcomes,
          message \in FirstFrames, resp \in RestResponses :
          \E r \in {StartPlugin(plugin, api, outcome, outcome2, message, resp, now)} :
             /\ plugin' = r.plugin
             /\ api' = r.api
             /\ HandlerTimer(r.timer)
             /\ last' = [op |-> "onStart", log |-> r.log]
             /\ failures' = FailuresAfter(failures, r.log)
    /\ UNCHANGED <<hb, now, connections, main, thread, Devices, unit_device_mapping,
                   device_unit_mapping, calls>>

OnHeartbeatEnter(i) ==
    /\ plugin.started
    /\ hb[i].pc = "idle"
    /\ \A j \in 1..(i - 1) : hb[j].pc # "idle"
    /\ IF SkipsHeartbeat(plugin)
       THEN /\ last' = [op |-> "onHeartbeat", i |-> i, skipped |-> TRUE, log |-> <<>>]
            /\ UNCHANGED <<plugin, hb>>
       ELSE /\ plugin' = [plugin EXCEPT !.update_in_progress = TRUE]
            /\ hb' = [hb EXCEPT ![i] = [pc |-> "cycle", current_time |-> now]]
            /\ last' = [op |-> "enter", i |-> i]
    /\ UNCHANGED <<api, timers, now, connections, main, thread, Devices,
                   unit_device_mapping, device_unit_mapping, calls, failures>>

\* the forced reconnect returns with the flag still set
OnHeartbeatRunForcedKeepsFlag(i) ==
    /\ hb[i].pc = "cycle"
    /\ \E outcome \in ConnectOutcomes, message \in FirstFrames, resp \in RestResponses :
          \E r \in {HeartbeatCycle(plugin, api, hb[i].current_time, outcome, message,
                                    resp, now)} :
             /\ plugin' = IF r.branch = "forced"
                          THEN [r.plugin EXCEPT !.update_in_progress = TRUE]
                          ELSE r.plugin
             /\ api' = r.api
             /\ HandlerTimer(r.timer)
             /\ last' = [op |-> "onHeartbeat", i |-> i, skipped |-> FALSE,
                         log |-> r.log, branch |-> r.branch]
             /\ failures' = FailuresAfter(failures, r.log)
    /\ hb' = [hb EXCEPT ![i] = IdleHeartbeat]
    /\ UNCHANGED <<now, connections, main, thread, Devices, unit_device_mapping,
                   device_unit_mapping, calls>>

OnHeartbeatRun(i) ==
    /\ hb[i].pc = "cycle"
    /\ \E outcome \in ConnectOutcomes, message \in FirstFrames, resp \in RestResponses :
          \E r \in {HeartbeatCycle(plugin, api, hb[i].current_time, outcome, message,
                                    resp, now)} :
             /\ plugin' = r.plugin
             /\ api' = r.api
             /\ HandlerTimer(r.timer)
             /\ last' = [op |-> "onHeartbeat", i |-> i, skipped |-> FALSE,
                         log |-> r.log, branch |-> r.branch]
             /\ failures' = FailuresAfter(failures, r.log)
    /\ hb' = [hb EXCEPT ![i] = IdleHeartbeat]
    /\ UNCHANGED <<now, connections, main, thread, Devices, unit_device_mapping,
                   device_unit_mapping, calls>>

\* on_message on the websocket thread
StreamDelivers(message) ==
    /\ api.ws_connected
    /\ api.ws # NoWs
    /\ api' = on_message(api, message, now)
    /\ HandlerTimer(StartsCloseTimer(api, message, now))
    /\ last' = [op |-> "on_message", invalid |-> message.kind = "invalid"]
    /\ UNCHANGED <<now, connections, main, thread, Devices, unit_device_mapping,
                   device_unit_mapping, calls, hbVars>>

\* the connection is lost: on_error, on_close and the end of run_websocket
StreamBreaks ==
    /\ api.ws_connected
    /\ api' = ThreadEnding(on_close(on_error(api)))
    /\ last' = [op |-> "on_error"]
    /\ UNCHANGED <<timers, now, connections, main, thread, Devices,
                   unit_device_mapping, device_unit_mapping, calls, hbVars>>

\* threading.Timer(2.0, self.close_websocket) runs close_websocket
CloseTimerFires(i) ==
    /\ timers[i].pc = "armed"
    /\ timers' = [timers EXCEPT ![i] = IdleTimer]
    /\ api' = Closed(api)
    /\ last' = [op |-> "close_websocket"]
    /\ UNCHANGED <<now, connections, main, thread, Devices, unit_device_mapping,
                   device_unit_mapping, calls, hbVars>>

HbTick ==
    /\ now < StartTime + MaxHbTicks * TickSeconds
    /\ now' = now + TickSeconds
    /\ last' = [op |-> "time"]
    /\ UNCHANGED <<api, connections, main, thread, timers, Devices,
                   unit_device_mapping, device_unit_mapping, calls, hbVars>>

InitHb ==
    /\ Devices = CreatedDevices("", "")
    /\ unit_device_mapping = LoadUnitDeviceMapping(Devices)
    /\ device_unit_mapping = LoadDeviceUnitMapping(Devices)
    /\ last = [op |-> "init"]
    /\ calls = 0
    /\ InitApi
    /\ InitPlugin

NextHb ==
    \/ OnStart
    \/ \E i \in 1..MaxHeartbeats : OnHeartbeatEnter(i)
    \/ \E i \in 1..MaxHeartbeats : OnHeartbeatRun(i)
    \/ \E message \in StreamMessages \cup {[kind |-> "invalid"]} :
          StreamDelivers(message)
    \/ StreamBreaks
    \/ \E i \in 1..MaxTimers : CloseTimerFires(i)
    \/ HbTick

SpecHb == InitHb /\ [][NextHb]_vars

-----------------------------------------------------------------------------
(* The registry over the life of the plugin: onStart reads the mapping back *)
(* from the descriptions and creates the devices of the vehicles the first  *)
(* state lists, every update cycle writes the vehicles of its snapshot, and *)
(* the user may delete a device in the host.                                *)

MaxVehicles == 2
ExternalIds == {"db:2", "db:5"}

\* the keys of data["vehicles"], in the order of the JSON object
VehiclePayloads ==
    {s \in UNION {[1..n -> ExternalIds] : n \in 0..MaxVehicles} :
        \A i, j \in DOMAIN s : s[i] = s[j] => i = j}

Reg ==
    [Devices |-> Devices,
     device_mapping |-> device_unit_mapping,
     unit_device_mapping |-> unit_device_mapping]

SetReg(reg) ==
    /\ Devices' = reg.Devices
    /\ device_unit_mapping' = reg.device_mapping
    /\ unit_device_mapping' = reg.unit_device_mapping

\* onStart: _load_device_mapping(Devices), then _get_initial_state with a
\* flat state whose "vehicles" is a dict
OnStartRegistry(vehicles) ==
    /\ SetReg(ProcessVehicles(load_device_mapping(Devices), vehicles, 1))
    /\ last' = [op |-> "onStart", vehicles |-> vehicles,
                empty |-> Devices = EmptyDict]
    /\ UNCHANGED <<calls, wsVars, hbVars>>

\* update_devices with a flat snapshot: _update_devices_from_websocket_data
UpdateFromSnapshot(vehicles, soc, status) ==
    /\ last.op # "init"
    /\ \E r \in {UpdateVehiclesFrom(Reg, vehicles, 1, soc, status)} :
          /\ SetReg(r.reg)
          /\ last' = [op |-> "update", vehicles |-> vehicles, served |-> r.served]
    /\ UNCHANGED <<calls, wsVars, hbVars>>

\* the user deletes a device in the host; the plugin is not told
DeleteDevice(u) ==
    /\ u \in DOMAIN Devices
    /\ Devices' = [v \in DOMAIN Devices \ {u} |-> Devices[v]]
    /\ last' = [op |-> "delete", unit |-> u]
    /\ UNCHANGED <<device_unit_mapping, unit_device_mapping, calls, wsVars, hbVars>>

InitReg ==
    /\ Devices = EmptyDict
    /\ device_unit_mapping = EmptyDict
    /\ unit_device_mapping = EmptyDict
    /\ last = [op |-> "init"]
    /\ calls = 0
    /\ InitApi
    /\ InitPlugin

NextReg ==
    \/ \E vehicles \in VehiclePayloads : OnStartRegistry(vehicles)
    \/ \E vehicles \in VehiclePayloads, soc \in ControllerSoc,
          status \in ControllerVehicleStatus :
          UpdateFromSnapshot(vehicles, soc, status)
    \/ \E u \in DOMAIN Devices : DeleteDevice(u)

SpecReg == InitReg /\ [][NextReg]_vars

-----------------------------------------------------------------------------
(* get_device_unit on its own: it is called with a type, an id and a        *)
(* parameter on a registry onStart has loaded, and the device of a unit it  *)
(* allocated is created afterwards.                                         *)

ResolveIds == {IntId(1), IntId(2), StrId(<<"db", "2">>)}
ResolveParameters == {S_soc, S_status}

\* the registry of two vehicles, and what is left of it after deletions
TwoVehicles ==
    ProcessVehicles(load_device_mapping(EmptyDict), <<"db:2", "db:5">>, 1).Devices

\* a call of get_device_unit; `again`: the call before it, with nothing in
\* between, had the same type, id and parameter and did not ask for less
GetDeviceUnitCall(device_id, parameter, create_new) ==
    /\ \E got \in {get_or_create_device_unit(device_unit_mapping, unit_device_mapping,
                                             Devices, "vehicle", device_id, parameter,
                                             create_new)} :
          /\ device_unit_mapping' = got.device_mapping
          /\ unit_device_mapping' = got.unit_device_mapping
          /\ last' = [op |-> "get_device_unit",
                      key |-> DeviceKey("vehicle", device_id, parameter),
                      create_new |-> create_new,
                      unit |-> got.unit, is_none |-> got.is_none,
                      again |-> /\ last.op = "get_device_unit"
                                /\ last.key = DeviceKey("vehicle", device_id, parameter)
                                /\ (last.create_new \/ ~create_new)]
    /\ UNCHANGED <<Devices, calls, wsVars, hbVars>>

\* `if unit not in Devices: Domoticz.Device(Unit=unit, ...).Create()`, after
\* the call that allocated the unit
CreateAllocated(u) ==
    /\ u \in DOMAIN unit_device_mapping
    /\ u \notin DOMAIN Devices
    /\ Devices' = CreateIfMissing(Devices, u, unit_device_mapping[u], "")
    /\ last' = [op |-> "Create", unit |-> u]
    /\ UNCHANGED <<device_unit_mapping, unit_device_mapping, calls, wsVars, hbVars>>

InitResolve ==
    /\ \E kept \in SUBSET DOMAIN TwoVehicles :
          /\ Devices = [u \in kept |-> TwoVehicles[u]]
          /\ device_unit_mapping = LoadDeviceUnitMapping(Devices)
          /\ unit_device_mapping = LoadUnitDeviceMapping(Devices)
    /\ last = [op |-> "init"]
    /\ calls = 0
    /\ InitApi
    /\ InitPlugin

NextResolve ==
    \/ \E device_id \in ResolveIds, parameter \in ResolveParameters,
          create_new \in BOOLEAN :
          GetDeviceUnitCall(device_id, parameter, create_new)
    \/ \E u \in DOMAIN unit_device_mapping : CreateAllocated(u)

SpecResolve == InitResolve /\ [][NextResolve]_vars

-----------------------------------------------------------------------------
(* Registry recovery: onStart's _load_device_mapping on a registry whose    *)
(* descriptions the user of the host has edited, so that two records may    *)
(* carry the same description.                                              *)

\* the user gives a device the description of another one
EditDescription(u, w) ==
    /\ u # w
    /\ Devices[u].Description # Devices[w].Description
    /\ Devices' = [Devices EXCEPT ![u].Description = Devices[w].Description]
    /\ last' = [op |-> "edit", unit |-> u]
    /\ UNCHANGED <<device_unit_mapping, unit_device_mapping, calls, wsVars, hbVars>>

\* self.device_manager._load_device_mapping(Devices)
LoadDeviceMapping ==
    /\ SetReg(load_device_mapping(Devices))
    /\ last' = [op |-> "load"]
    /\ UNCHANGED <<calls, wsVars, hbVars>>

InitLoad ==
    /\ Devices = TwoVehicles
    /\ device_unit_mapping = EmptyDict
    /\ unit_device_mapping = EmptyDict
    /\ last = [op |-> "init"]
    /\ calls = 0
    /\ InitApi
    /\ InitPlugin

NextLoad ==
    \/ \E u, w \in DOMAIN Devices : EditDescription(u, w)
    \/ LoadDeviceMapping

SpecLoad == InitLoad /\ [][NextLoad]_vars

-----------------------------------------------------------------------------
(* The nested shape from creation to update: onStart creates the devices    *)
(* of the state GET /state answers with, and a polling cycle writes the     *)
(* values of its state.  DeviceManager.battery_present is carried in last.  *)

MaxLoadpoints == 1

\* the "site" objects and the "loadpoints" lists of the states; a state has
\* "vehicles": []
NestedSites ==
    {[keys |-> ks, gridPower |-> 500, batterySoc |-> 80, batteryMode |-> m] :
        ks \in {{"gridPower"}, {"batterySoc", "batteryMode"},
                {"gridPower", "batterySoc", "batteryMode"}},
        m \in {"normal", "HOLD"}}
NestedLoadpoints ==
    {[keys |-> {"mode", "phases"}, mode |-> "pv", phases |-> 1,
      minSoc |-> 80, targetSoc |-> 80],
     [keys |-> {"mode"}, mode |-> "now", phases |-> 0,
      minSoc |-> 80, targetSoc |-> 80]}
NestedStates ==
    [site : NestedSites,
     loadpoints : UNION {[1..n -> NestedLoadpoints] : n \in 0..MaxLoadpoints}]

\* _load_device_mapping, "Track battery presence"
LoadsBatteryPresent(D) == \E u \in DOMAIN D : D[u].Description[1] = "battery"

\* onStart: a new DeviceManager, _load_device_mapping(Devices), then
\* _get_initial_state with a nested state
GetInitialState(state) ==
    /\ calls < MaxHandlerCalls
    /\ calls' = calls + 1
    /\ \E r \in {process_rest_api_data(load_device_mapping(Devices), state,
                                       LoadsBatteryPresent(Devices))} :
          /\ SetReg(r.reg)
          /\ last' = [op |-> "onStart", state |-> state,
                      empty |-> Devices = EmptyDict,
                      battery_present |-> r.battery_present]
    /\ UNCHANGED <<wsVars, hbVars>>

\* update_devices_rest with the state GET /state answers with; `first`: it
\* is the state onStart created the devices of, from an empty registry, in
\* the step before
UpdateDevicesRest(state) ==
    /\ last.op # "init"
    /\ calls < MaxHandlerCalls
    /\ calls' = calls + 1
    /\ Devices' = update_devices_from_rest_api_data(Devices, state)
    /\ last' = [op |-> "update", state |-> state,
                first |-> /\ last.op = "onStart"
                          /\ last.empty
                          /\ last.state = state,
                battery_present |-> last.battery_present]
    /\ UNCHANGED <<device_unit_mapping, unit_device_mapping, wsVars, hbVars>>

InitNested ==
    /\ Devices = EmptyDict
    /\ device_unit_mapping = EmptyDict
    /\ unit_device_mapping = EmptyDict
    /\ last = [op |-> "init"]
    /\ calls = 0
    /\ InitApi
    /\ InitPlugin

NextNested ==
    \/ \E state \in NestedStates : GetInitialState(state)
    \/ \E state \in NestedStates : UpdateDevicesRest(state)

SpecNested == InitNested /\ [][NextNested]_vars

-----------------------------------------------------------------------------
(* The classification of fragments: connections are opened and each        *)
(* delivers a few fragments, drawn from the keys the controller sends and   *)
(* the keys on_message looks for.                                           *)

MaxFragments == 2

\* "grid" and "loadpoints.0" are indicators of on_message; "gridPower",
\* "version", "vehicles" and "loadpoints.0.mode" are keys of a flat payload
FragmentKeys ==
    complete_state_indicators
        \cup {"gridPower", "version", "vehicles"} \cup FlatLoadpointKeys

\* a fragment with one or two keys
KeyedFragments ==
    {[kind |-> "dict", data |-> [k \in d |-> 1]] :
        d \in {e \in SUBSET FragmentKeys : Cardinality(e) \in 1..2}}

\* the complete fragments the connection has delivered so far
CompletesSoFar == IF last.op = "fragment" THEN last.completes ELSE 0

\* on_message from its first statement to its last, `fresh` telling whether
\* min_complete_update_interval had passed when the frame arrived
FragmentArrives(message) ==
    /\ thread[1].pc = "dispatch"
    /\ calls < MaxFragments
    /\ calls' = calls + 1
    /\ api' = on_message(api, message, now)
    /\ IF StartsCloseTimer(api, message, now)
       THEN FreeTimers # {} /\ timers' = StartTimer(thread[1].ws)
       ELSE UNCHANGED timers
    /\ connections' = [connections EXCEPT ![thread[1].ws].merged = TRUE]
    /\ last' = [op |-> "fragment", message |-> message,
                fresh |-> now - api.last_complete_update
                              >= min_complete_update_interval,
                completes |-> CompletesSoFar
                                + IF is_complete_state(message.data) THEN 1 ELSE 0]
    /\ UNCHANGED <<main, thread, now, Devices, unit_device_mapping,
                 device_unit_mapping, hbVars>>

NextFragments ==
    \/ \E keep_connection \in BOOLEAN : MergeConnect(keep_connection)
    \/ \E message \in KeyedFragments : FragmentArrives(message)
    \/ \E i \in 1..MaxTimers : MergeTimerFires(i)

SpecFragments == InitWs /\ [][NextFragments]_vars

-----------------------------------------------------------------------------

(* Restarts: get_device_unit is called and the devices of the units it      *)
(* allocated are created, and at any time the plugin is started again and   *)
(* reads the mapping back from the descriptions.                            *)

RestartIds == {IntId(1), StrId(<<"db", "2">>)}
RestartParameters == {S_soc, <<"effective", "max", "current">>}

NextRestart ==
    \/ \E device_id \in RestartIds, parameter \in RestartParameters,
          create_new \in BOOLEAN :
          GetDeviceUnitCall(device_id, parameter, create_new)
    \/ \E u \in DOMAIN unit_device_mapping : CreateAllocated(u)
    \/ LoadDeviceMapping

SpecRestart == InitResolve /\ [][NextRestart]_vars

-----------------------------------------------------------------------------

(* The apply path of the stream regime, statement by statement: while the   *)
(* connection is open and no reconnect is due, onHeartbeat hashes           *)
(* api.ws_last_data, copies it to last_data and runs update_devices, and    *)
(* on_message may run on the websocket thread between any two of these.     *)
(* A dict that json.loads made is told apart from an equal one by `obj`.    *)

MaxSnapshots == 2
MaxApplyTicks == 1

\* data["vehicles"] with one vehicle: the dict of the vehicle, with "soc"
\* and, once a status was merged into it, "chargeStatus" and "status"
VehicleDict(obj, status) == [obj |-> obj, soc |-> 50, status |-> status]

\* the frames: complete flat snapshots with and without a loadpoint key and
\* the vehicles, and a partial one
ApplySnapshotKeys ==
    {{"pvPower", "homePower"} \cup ks : ks \in SUBSET {"loadpoints.0.mode", "vehicles"}}
ApplyFrames(obj) ==
    {[kind |-> "dict",
      data |-> [k \in ks |-> IF k = "vehicles" THEN VehicleDict(obj, "")
                               ELSE IF k = "loadpoints.0.mode"
                               THEN (IF v = 1 THEN "pv" ELSE "now")
                               ELSE v]] :
        ks \in ApplySnapshotKeys \cup {{"pvPower"}}, v \in StreamValues}

\* json.dumps(data, sort_keys=True): the items, whatever object holds them
JsonText(data) ==
    [k \in DOMAIN data |-> IF k = "vehicles"
                           THEN [soc |-> data[k].soc, status |-> data[k].status]
                           ELSE data[k]]

\* vehicle_data.update(vehicle_status), seen through a dict that may hold
\* the same vehicle dict
MergedInPlace(d, obj, status) ==
    IF "vehicles" \in DOMAIN d /\ d["vehicles"].obj = obj
    THEN [d EXCEPT !["vehicles"].status = status]
    ELSE d

\* the answers of get_vehicle_status: None, or a result with chargeStatus
VehicleStatusAnswers == {"", "B"}

\* the registry: the devices of CreatedDevices and the PV power device
ApplyDevices ==
    Update(CreatedDevices("", ""),
           (UNIT_BASE_SITE :> NewDevice(TYPE_USAGE, SUBTYPE_ELECTRIC,
                                        <<"site", "1", "pv", "power">>, "")))

\* _update_devices_from_websocket_data(data) after the status was merged:
\* update_site_devices, update_loadpoint_devices of loadpoint 1 and
\* update_vehicle_devices of vehicle 1
UpdateFromFlat(D, data) ==
    LET D1 == UpdateField(D, "pvPower" \in DOMAIN data,
                          Key("site", 1, <<"pv", "power">>), 0,
                          IF "pvPower" \in DOMAIN data THEN data["pvPower"] ELSE 0)
        D2 == IF "loadpoints.0.mode" \in DOMAIN data
              THEN update_loadpoint_devices(D1, 1,
                       [keys |-> {"mode"}, mode |-> data["loadpoints.0.mode"],
                        phases |-> 0, minSoc |-> 0, targetSoc |-> 0])
              ELSE D1
    IN IF "vehicles" \in DOMAIN data /\ data["vehicles"].status # ""
       THEN update_vehicle_devices(D2, 1, data["vehicles"].status)
       ELSE D2

\* _update_devices_from_rest_api_data(data) on a flat snapshot: it has no
\* "site" and no "loadpoints", its vehicles are updated
UpdateFlatAsNested(D, data) ==
    IF "vehicles" \in DOMAIN data /\ data["vehicles"].status # ""
    THEN update_vehicle_devices(D, 1, data["vehicles"].status)
    ELSE D

\* on_message on the websocket thread
SnapshotArrives(message) ==
    /\ calls < MaxSnapshots
    /\ calls' = calls + 1
    /\ api' = on_message(api, message, now)
    /\ last' = [op |-> "on_message", message |-> message]
    /\ UNCHANGED <<Devices, unit_device_mapping, device_unit_mapping, connections,
                   main, thread, timers, now, hbVars>>

\* onHeartbeat up to `self.update_in_progress = True`
ApplyEnter ==
    /\ hb[1].pc = "idle"
    /\ ~plugin.update_in_progress
    /\ plugin.use_websocket
    /\ now - plugin.last_ws_reconnect < ws_reconnect_interval
    /\ api.ws_connected
    /\ plugin' = [plugin EXCEPT !.update_in_progress = TRUE]
    /\ hb' = [hb EXCEPT ![1] = [pc |-> "hash", current_time |-> now]]
    /\ last' = [op |-> "enter", i |-> 1]
    /\ UNCHANGED <<Devices, unit_device_mapping, device_unit_mapping, calls, wsVars,
                   failures>>

\* `if self.api.ws_connected and self.api.ws_last_data:`, `current_hash =
\* hash(json.dumps(self.api.ws_last_data, sort_keys=True))` and the test of
\* the hash and the interval
ApplyHash ==
    /\ hb[1].pc = "hash"
    /\ \E current_hash \in {Hash(JsonText(api.ws_last_data))} :
          IF /\ api.ws_connected
             /\ api.ws_last_data # EmptyDict
             /\ current_hash # plugin.last_data_hash
             /\ hb[1].current_time - plugin.last_websocket_update
                    >= min_websocket_update_interval
          THEN /\ hb' = [hb EXCEPT ![1] = [pc |-> "copy",
                                            current_time |-> hb[1].current_time,
                                            current_hash |-> current_hash]]
               /\ last' = [op |-> "hash"]
               /\ UNCHANGED plugin
          ELSE /\ hb' = [hb EXCEPT ![1] = IdleHeartbeat]
               /\ plugin' = [plugin EXCEPT !.update_in_progress = FALSE]
               /\ last' = [op |-> "onHeartbeat", applied |-> FALSE]
    /\ UNCHANGED <<Devices, unit_device_mapping, device_unit_mapping, calls, wsVars,
                   failures>>

\* `self.last_data = self.api.ws_last_data.copy()`, `self.last_data_hash =
\* current_hash`, `self.last_websocket_update = current_time`
ApplyCopy ==
    /\ hb[1].pc = "copy"
    /\ plugin' = [plugin EXCEPT !.last_data = api.ws_last_data,
                                !.last_data_hash = hb[1].current_hash,
                                !.last_websocket_update = hb[1].current_time]
    /\ hb' = [hb EXCEPT ![1] = [pc |-> "update", current_time |-> hb[1].current_time]]
    /\ last' = [op |-> "copy"]
    /\ UNCHANGED <<Devices, unit_device_mapping, device_unit_mapping, calls, wsVars,
                   failures>>

\* update_devices(), `self.ws_retry_count = 0` and the finally clause; the
\* status get_vehicle_status answers is merged into the vehicle dict, which
\* every dict that holds it shows
ApplyUpdate(status) ==
    /\ hb[1].pc = "update"
    /\ \E obj \in {IF "vehicles" \in DOMAIN plugin.last_data
                   THEN plugin.last_data["vehicles"].obj ELSE 0} :
       \E data \in {IF status = "" THEN plugin.last_data
                    ELSE MergedInPlace(plugin.last_data, obj, status)} :
          /\ plugin' = [plugin EXCEPT !.last_data = data,
                                      !.ws_retry_count = 0,
                                      !.update_in_progress = FALSE]
          /\ api' = IF status = "" THEN api
                    ELSE [api EXCEPT
                             !.ws_last_data = MergedInPlace(@, obj, status),
                             !.ws_temp_data = MergedInPlace(@, obj, status)]
          /\ Devices' = IF has_loadpoint_prefix(data)
                        THEN UpdateFromFlat(Devices, data)
                        ELSE UpdateFlatAsNested(Devices, data)
          /\ last' = [op |-> "onHeartbeat", applied |-> TRUE,
                      flat |-> has_loadpoint_prefix(data),
                      merged |-> status # "" /\ obj # 0]
    /\ hb' = [hb EXCEPT ![1] = IdleHeartbeat]
    /\ UNCHANGED <<unit_device_mapping, device_unit_mapping, calls, connections,
                   main, thread, timers, now, failures>>

ApplyTick ==
    /\ now < StartTime + MaxApplyTicks * min_complete_update_interval
    /\ now' = now + min_complete_update_interval
    /\ last' = [op |-> "time"]
    /\ UNCHANGED <<Devices, unit_device_mapping, device_unit_mapping, calls, api,
                   connections, main, thread, timers, hbVars>>

\* onStart has connected with keep_connection at StartTime
InitApply ==
    /\ Devices = ApplyDevices
    /\ unit_device_mapping = LoadUnitDeviceMapping(Devices)
    /\ device_unit_mapping = LoadDeviceUnitMapping(Devices)
    /\ last = [op |-> "init"]
    /\ calls = 0
    /\ api = on_open(StoreThread(StoreWebSocket(ResetStateFlags(NewEVCCApi, TRUE),
                                                TheWs), 1))
    /\ connections = <<>>
    /\ main = IdleMain
    /\ thread = [t \in Threads |-> NoThread]
    /\ timers = [i \in 1..MaxTimers |-> IdleTimer]
    /\ now = StartTime
    /\ plugin = [NewBasePlugin EXCEPT !.started = TRUE,
                                      !.last_ws_reconnect = StartTime]
    /\ hb = [i \in 1..MaxHeartbeats |-> IdleHeartbeat]
    /\ failures = 0

NextApply ==
    \/ \E message \in ApplyFrames(calls + 1) : SnapshotArrives(message)
    \/ ApplyEnter
    \/ ApplyHash
    \/ ApplyCopy
    \/ \E status \in VehicleStatusAnswers : ApplyUpdate(status)
    \/ ApplyTick

SpecApply == InitApply /\ [][NextApply]_vars

-----------------------------------------------------------------------------

(* Properties of the command relay                                          *)

Confirmed(resp) == resp.kind = "status" /\ resp.code = HTTP_OK

IsCommand == last.op = "onCommand"
Requests == IF IsCommand THEN {i \in DOMAIN last.log : last.log[i].ev = "request"} ELSE {}
Writes == IF IsCommand THEN {i \in DOMAIN last.log : last.log[i].ev = "write"} ELSE {}

SettableUnits == {UNIT_LP_MODE, UNIT_LP_PHASES, UNIT_LP_MIN_SOC, UNIT_LP_TARGET_SOC,
                  UNIT_BATTERY_MODE}
SelectorUnits == {UNIT_LP_MODE, UNIT_LP_PHASES, UNIT_BATTERY_MODE}

\* C1: a command on a mode, phases, min/target SoC or battery mode device
\* whose controller request did not succeed (non-200 status, or an exception
\* in the api call) writes no device: the registry after the invocation is the
\* registry before it.
C1_FailedCommandWritesNothing ==
    [][(/\ calls' = calls + 1
        /\ last'.op = "onCommand"
        /\ last'.Unit \in SettableUnits
        /\ \A i \in DOMAIN last'.log :
               last'.log[i].ev = "request" => ~Confirmed(last'.log[i].resp))
       => (/\ Devices' = Devices
           /\ \A i \in DOMAIN last'.log : last'.log[i].ev # "write")]_vars

\* the phases device was commanded to 3-phase, the controller answered 500,
\* and the device does not show the 3-phase level
C1_Witness ==
    /\ IsCommand
    /\ last.Unit = UNIT_LP_PHASES
    /\ last.Level = 20
    /\ Len(last.log) = 1
    /\ last.log[1].ev = "request"
    /\ last.log[1].api = "set_loadpoint_phases"
    /\ last.log[1].value = 3
    /\ last.log[1].resp = [kind |-> "status", code |-> HTTP_ERROR]
    /\ Devices[UNIT_LP_PHASES].nValue = 10

ApiOfUnit(unit) ==
    IF unit = UNIT_LP_MODE THEN "set_loadpoint_mode"
    ELSE IF unit = UNIT_LP_PHASES THEN "set_loadpoint_phases"
    ELSE IF unit = UNIT_LP_MIN_SOC THEN "set_loadpoint_min_soc"
    ELSE IF unit = UNIT_LP_TARGET_SOC THEN "set_loadpoint_target_soc"
    ELSE IF unit = UNIT_BATTERY_MODE THEN "set_battery_mode"
    ELSE "none"

\* C2: every device write of an onCommand invocation comes after a controller
\* request of the same invocation, for the written unit's parameter, that was
\* answered 200; and after a confirmed selector command (mode, phases, battery
\* mode) the commanded unit's nValue is the commanded Level.
C2_RequestBeforeWrite ==
    IsCommand =>
        /\ \A w \in Writes :
              /\ last.log[w].unit = last.Unit
              /\ \E r \in Requests :
                    /\ r < w
                    /\ Confirmed(last.log[r].resp)
                    /\ last.log[r].api = ApiOfUnit(last.log[w].unit)
        /\ (last.Unit \in SelectorUnits /\ \E r \in Requests : Confirmed(last.log[r].resp))
              => Devices[last.Unit].nValue = last.Level

\* a confirmed mode command: request first, then the write, and the device
\* shows the commanded level
C2_Witness ==
    /\ IsCommand
    /\ last.Unit = UNIT_LP_MODE
    /\ last.Level = 30
    /\ Len(last.log) = 2
    /\ last.log[1].ev = "request"
    /\ last.log[1].value = "pv"
    /\ Confirmed(last.log[1].resp)
    /\ last.log[2].ev = "write"
    /\ Devices[UNIT_LP_MODE].nValue = 30

\* C3 (as claimed): a command with Level v on a unit whose key is
\* loadpoint_<id>_min_soc or loadpoint_<id>_target_soc issues a controller
\* request setting that loadpoint's min SoC / limit SoC to exactly v, and on
\* success the device shows v.
C3_SocCommandPassesThrough ==
    (/\ IsCommand
     /\ last.Unit \in DOMAIN unit_device_mapping
     /\ unit_device_mapping[last.Unit] \in
            {Key("loadpoint", 1, S_min_soc), Key("loadpoint", 1, S_target_soc)})
    => /\ \E r \in Requests :
             /\ last.log[r].api =
                    (IF unit_device_mapping[last.Unit] = Key("loadpoint", 1, S_min_soc)
                     THEN "set_loadpoint_min_soc" ELSE "set_loadpoint_target_soc")
             /\ last.log[r].value = last.Level
             /\ Confirmed(last.log[r].resp)
                    => Devices[last.Unit].sValue = FormatOneDecimal(last.Level)

ModeLevels == {0, 10, 20, 30}
PhasesLevels == {0, 10, 20}
BatteryModeLevels == {0, 10, 20, 30, 40}

\* C4 (as claimed): for every level of the fixed tables, the controller value
\* a command sends translates back to the commanded level.
C4_TranslationRoundTrips ==
    (IsCommand /\ Requests # {}) =>
        LET request == last.log[CHOOSE r \in Requests : TRUE]
        IN /\ (last.Unit = UNIT_LP_MODE /\ last.Level \in ModeLevels)
                 => LevelOfMode(request.value) = last.Level
           /\ (last.Unit = UNIT_LP_PHASES /\ last.Level \in PhasesLevels)
                 => LevelOfPhases(request.value) = last.Level
           /\ (last.Unit = UNIT_BATTERY_MODE /\ last.Level \in BatteryModeLevels)
                 => LevelOfBatteryMode(request.value) = last.Level

\* the levels onCommand has a branch for
CommandBatteryModeLevels == {0, 10, 20, 30}
ModeTable == {"off", "now", "minpv", "pv"}
PhasesTable == {0, 1, 3}
BatteryModeTable == {"unknown", "normal", "hold", "charge", "external"}
VehicleStatusTable == {"A", "B", "C"}

TheRequest == last.log[CHOOSE r \in Requests : TRUE]

InBatteryTable(mode, ignoreCase) ==
    IF ignoreCase THEN Lower(mode) \in BatteryModeTable ELSE mode \in BatteryModeTable

\* the reverse direction, for the devices of the registry (entity 1)
ReverseDefaults(ignoreCase) ==
    /\ (last.op = "update_loadpoint_devices" /\ last.id = 1) =>
          /\ ("mode" \in last.data.keys /\ last.data.mode \notin ModeTable)
                => Devices[UNIT_LP_MODE].nValue = 0
          /\ ("phases" \in last.data.keys /\ last.data.phases \notin PhasesTable)
                => Devices[UNIT_LP_PHASES].nValue = 0
    /\ (last.op = "update_battery_devices" /\ ~InBatteryTable(last.batteryMode, ignoreCase))
          => Devices[UNIT_BATTERY_MODE].nValue = 0
    /\ (last.op = "update_vehicle_devices" /\ last.id = 1
            /\ last.status \notin VehicleStatusTable)
          => Devices[UNIT_VEHICLE_STATUS].nValue = 0

-----------------------------------------------------------------------------
(* Properties of the WebSocket client under its threads                     *)

\* connection ws is open on the websocket thread and nothing it delivered
\* has been merged yet
FreshlyOpen(ws) ==
    /\ \E t \in Threads : thread[t].ws = ws /\ thread[t].pc \in {"dispatch", "process"}
    /\ ~connections[ws].merged

BufferValues == {api.ws_last_data[k] : k \in DOMAIN api.ws_last_data}
                    \cup {api.ws_temp_data[k] : k \in DOMAIN api.ws_temp_data}

\* The part of C6 about the data: whatever the buffer holds while a
\* connection after the first is being served was delivered by it.
NoCrossConnectionData ==
    \A ws \in 2..Len(connections) :
        (\E t \in Threads : /\ thread[t].ws = ws
                             /\ thread[t].pc \in {"dispatch", "process", "finally"})
            => BufferValues \subseteq {ws}

\* C6: after a close followed by a reopen the merge buffer is fully reset:
\* when a connection after the first has been opened (on_open has run) and
\* no fragment of it has been merged yet, ws_last_data and ws_temp_data are
\* empty and received_complete_state is false, so that the first merge on it
\* finds nothing of the previous connection.
C6_BufferResetOnReopen ==
    \A ws \in 2..Len(connections) :
        FreshlyOpen(ws) => /\ api.ws_last_data = EmptyDict
                           /\ api.ws_temp_data = EmptyDict
                           /\ ~api.received_complete_state

Newest == Len(connections)
Shared == <<api.ws_last_data, api.ws_temp_data, api.ws_connected, api.ws,
            api.update_in_progress>>

\* a step of the websocket thread in on_message, on_error or on_close or in
\* the epilogue of a connection that is no longer the newest
StaleThreadIn(pcs) ==
    \E t \in Threads :
        /\ thread'[t] # thread[t]
        /\ thread[t].pc \in pcs
        /\ thread[t].ws # NoWs
        /\ thread[t].ws < Newest

StaleThreadStep == StaleThreadIn({"dispatch", "process", "finally", "ending"})

\* a step of a timer that a connection no longer the newest has started
StaleTimerStep ==
    \E i \in 1..MaxTimers :
        timers'[i] # timers[i] /\ timers[i].pc # "idle" /\ timers[i].by < Newest

\* C10: once a newer connection has been created, no callback, close timer or
\* thread epilogue of an older connection changes ws_last_data, ws_temp_data,
\* ws_connected, ws or update_in_progress, or closes the newest connection.
C10_SupersededConnectionIsInert ==
    [][(StaleThreadStep \/ StaleTimerStep)
          => /\ Shared' = Shared
             /\ connections'[Newest].sock = connections[Newest].sock]_vars

\* C10 for the timers alone, and for the thread's epilogue alone
StaleTimerIsInert ==
    [][StaleTimerStep => /\ Shared' = Shared
                         /\ connections'[Newest].sock = connections[Newest].sock]_vars
StaleEpilogueIsInert ==
    [][StaleThreadIn({"ending"}) => Shared' = Shared]_vars
StaleOnMessageIsInert ==
    [][StaleThreadIn({"process", "finally"}) => Shared' = Shared]_vars

\* the control flows between `self.update_in_progress = True` and the end of
\* on_message's finally block
InMerge == {t \in Threads : thread[t].pc \in {"process", "finally"}}

\* C11: the merge never runs concurrently with itself: in every interleaving
\* of on_message with close_websocket, on_open and the thread epilogue, at most
\* one control flow is inside the read-modify-write of ws_temp_data and
\* ws_last_data.
C11_MergeIsExclusive == Cardinality(InMerge) <= 1

\* a merge is running for a connection that close_websocket has closed and
\* connect_websocket has replaced, with update_in_progress already cleared
C11_Witness ==
    \E t \in InMerge :
        /\ thread[t].pc = "process"
        /\ thread[t].ws < Newest
        /\ ~api.update_in_progress
        /\ main.pc = "idle"

\* every key/value pair of data is in buffer
HoldsPairs(buffer, data) ==
    \A k \in DOMAIN data : k \in DOMAIN buffer /\ buffer[k] = data[k]

\* a frame leaves the socket of thread t's connection
TakenFromSocket(t) ==
    /\ thread[t].ws # NoWs
    /\ connections[thread[t].ws].inbox # <<>>
    /\ connections'[thread[t].ws].inbox = Tail(connections[thread[t].ws].inbox)

-----------------------------------------------------------------------------
(* Properties of the merge, handler by handler                              *)

IsMerge == last.op = "on_message"

\* the step is on_message for this frame
MergeStep(message) ==
    /\ last'.op = "on_message"
    /\ last'.message = message
    /\ MergeMessage(message)
PartialPaths == {"fold", "accumulate"}

\* C7: merging a non-complete fragment is additive: an on_message that takes
\* the partial branch leaves every key of ws_last_data in place, with the
\* value it had unless the key is in the accumulated partial data (the
\* accumulator with the fragment added) that is folded.
C7_PartialMergeIsAdditive ==
    [][\A message \in MergeMessages :
          (MergeStep(message) /\ MergePath(api, message, now) \in PartialPaths)
              => \A k \in DOMAIN api.ws_last_data :
                    /\ k \in DOMAIN api'.ws_last_data
                    /\ \/ api'.ws_last_data[k] = api.ws_last_data[k]
                       \/ k \in DOMAIN Update(api.ws_temp_data, message.data)]_vars

\* a fold has kept a key of the base that the fragment does not have, and has
\* given another key the fragment's value
C7_Witness ==
    /\ IsMerge
    /\ last.path = "fold"
    /\ \E k \in DOMAIN last.before :
          /\ k \notin DOMAIN last.message.data
          /\ api.ws_last_data[k] = last.before[k]
    /\ \E k \in DOMAIN last.before :
          /\ k \in DOMAIN last.message.data
          /\ api.ws_last_data[k] # last.before[k]

\* C8: a complete fragment that arrives min_complete_update_interval or more
\* after the last accepted complete one replaces ws_last_data by exactly the
\* fragment, empties ws_temp_data, sets received_complete_state and records
\* the time in last_complete_update.
C8_CompleteReplacesBase ==
    [][\A message \in MergeMessages :
          (/\ MergeStep(message)
           /\ message.kind = "dict"
           /\ is_complete_state(message.data)
           /\ now - api.last_complete_update >= min_complete_update_interval)
              => /\ api'.ws_last_data = message.data
                 /\ api'.ws_temp_data = EmptyDict
                 /\ api'.received_complete_state
                 /\ api'.last_complete_update = now]_vars

\* a complete fragment has been accepted over a base that had a key the
\* fragment has not: the interval since the base's own acceptance had passed
C8_Witness ==
    /\ IsMerge
    /\ last.path = "complete"
    /\ \E k \in DOMAIN last.before : k \notin DOMAIN last.message.data
    /\ api.ws_last_data = last.message.data
    /\ api.last_complete_update = now

\* C9: a non-complete fragment that arrives on a connection before any
\* complete one has been accepted becomes the tentative base: after its
\* on_message the snapshot get_state returns from the cache has the
\* fragment's fields.
C9_PartialBeforeCompleteIsVisible ==
    [][\A message \in MergeMessages :
          (/\ MergeStep(message)
           /\ message.kind = "dict"
           /\ ~is_complete_state(message.data)
           /\ ~api.received_complete_state)
              => /\ CachedState(api') # None
                 /\ \A k \in DOMAIN message.data :
                       /\ k \in DOMAIN api'.ws_last_data
                       /\ api'.ws_last_data[k] = message.data[k]]_vars

\* What the code does with such a fragment: it stays in ws_temp_data, and
\* ws_last_data stays empty.
PartialBeforeCompleteIsHeldBack ==
    [][\A message \in MergeMessages :
          (/\ MergeStep(message)
           /\ message.kind = "dict"
           /\ ~is_complete_state(message.data)
           /\ ~api.received_complete_state)
              => /\ api'.ws_last_data = EmptyDict
                 /\ CachedState(api') = None
                 /\ \A k \in DOMAIN message.data :
                       /\ k \in DOMAIN api'.ws_temp_data
                       /\ api'.ws_temp_data[k] = message.data[k]]_vars

-----------------------------------------------------------------------------
(* Properties of the update scheduler                                       *)

InCycle == {i \in 1..MaxHeartbeats : hb[i].pc = "cycle"}

\* a call of onHeartbeat reaches its first `if` in this step
HeartbeatFires ==
    \/ last'.op = "enter"
    \/ last'.op = "onHeartbeat" /\ last'.skipped

\* C13: at most one update cycle is in flight, and a heartbeat that fires
\* while update_in_progress is set returns at once: it makes no connection
\* attempt, fetches no state, writes no device and leaves nothing behind
\* that would run the cycle later.
C13_OneCycleInFlight ==
    [][/\ Cardinality(InCycle') <= 1
       /\ (HeartbeatFires /\ plugin.update_in_progress) =>
             /\ last'.op = "onHeartbeat"
             /\ last'.log = <<>>
             /\ UNCHANGED <<plugin, hb, api, timers, connections, thread, main,
                            Devices, device_unit_mapping, unit_device_mapping>>]_vars

C13_Witness ==
    /\ last.op = "onHeartbeat"
    /\ last.skipped
    /\ InCycle # {}
    /\ plugin.update_in_progress

\* an update cycle returns in this step
CycleReturns == last'.op = "onHeartbeat" /\ ~last'.skipped

\* the calls of the update routines the step made that found values to write
DeviceWrites(log) == {k \in DOMAIN log : log[k].ev = "update" /\ log[k].writes}

\* C14: in the stream regime and in the polling regime alike, a cycle writes
\* devices only if the snapshot it took differs by value from the one
\* applied last.
C14_WritesOnlyOnChange ==
    [][(CycleReturns /\ DeviceWrites(last'.log) # {}) =>
          plugin'.last_data # plugin.last_data]_vars

\* the ways through onHeartbeat that belong to PollingFallback: the cycle that
\* gives up the stream with `self.use_websocket = False` and polls at once,
\* and the cycles of the `else` branch
PollingBranches == {"fallback", "poll", "wait"}

\* C15: in PollingFallback no stream is involved: the cycle makes no
\* WebSocket connection attempt, and whatever it applies comes from a REST
\* request of the same cycle and goes through the nested-shape routine.
C15_PollingUsesNoStream ==
    [][(CycleReturns /\ last'.branch \in PollingBranches) =>
          \A k \in DOMAIN last'.log :
             /\ last'.log[k].ev # "connect"
             /\ last'.log[k].ev = "update" =>
                   /\ last'.log[k].path = "rest"
                   /\ last'.log[k].writes
                   /\ \E j \in 1..(k - 1) : last'.log[j].ev = "request"]_vars

\* C16: connection retries are bounded: ws_retry_count never exceeds
\* max_ws_retries, no more than max_ws_retries + 1 connection attempts fail
\* in a row, and after that many failures the plugin is in PollingFallback
\* and a poll asks GET /state.
C16_RetriesBounded ==
    [][/\ plugin'.ws_retry_count <= max_ws_retries
       /\ failures' <= max_ws_retries + 1
       /\ failures' = max_ws_retries + 1 => ~plugin'.use_websocket
       /\ (CycleReturns /\ last'.branch \in {"fallback", "poll"}) =>
             \E k \in DOMAIN last'.log : last'.log[k].ev = "request"]_vars

-----------------------------------------------------------------------------
(* Properties of the error paths                                            *)

\* the cycle's GET /state was answered with another status than 200, or
\* raised
FetchFailed(log) == \E k \in DOMAIN log : log[k].ev = "request" /\ ~log[k].ok

\* the cycle's device update raised
UpdateRaised(log) == \E k \in DOMAIN log : log[k].ev = "update" /\ log[k].raises

UnparseableFrame == last'.op = "on_message" /\ last'.invalid

ErrorPath ==
    \/ UnparseableFrame
    \/ CycleReturns /\ (FetchFailed(last'.log) \/ UpdateRaised(last'.log))

\* C22: a failed state fetch, an unparseable frame and an exception during
\* an update cycle leave plugin.last_data, the base snapshot ws_last_data
\* and both mappings as they were, and the update guard is free for the
\* next heartbeat.
C22_ErrorPathsKeepCommittedState ==
    [][ErrorPath =>
          /\ plugin'.last_data = plugin.last_data
          /\ api'.ws_last_data = api.ws_last_data
          /\ UNCHANGED <<device_unit_mapping, unit_device_mapping>>
          /\ CycleReturns => ~plugin'.update_in_progress]_vars

-----------------------------------------------------------------------------
(* Properties of the nested shape                                           *)

\* {site: {gridPower: 500, batterySoc: 80, batteryMode: "normal"},
\*  loadpoints: [{mode: "pv", phases: 1}], vehicles: []}
ScenarioState ==
    [site |-> [keys |-> {"gridPower", "batterySoc", "batteryMode"},
               gridPower |-> 500, batterySoc |-> 80, batteryMode |-> "normal"],
     loadpoints |-> <<[keys |-> {"mode", "phases"}, mode |-> "pv", phases |-> 1,
                       minSoc |-> 80, targetSoc |-> 80]>>]

\* the device of a key
DeviceOf(key) == Devices[device_unit_mapping[key]]

\* the ids of the loadpoints that have a slot
LoadpointsWithSlot ==
    {key[2] : key \in {k \in DOMAIN device_unit_mapping : k[1] = "loadpoint"}}

ScenarioDone == last.op = "update" /\ last.first /\ last.state = ScenarioState

\* C24: the scenario payload, created from an empty registry and then
\* applied, leaves the grid power device at 500, exactly one loadpoint
\* (index 1) with mode level 30 and phases level 10, battery_present set and
\* the battery mode device at level 10.
C24_NestedScenario ==
    ScenarioDone =>
        /\ DeviceOf(<<"site", "1", "grid", "power">>).sValue = "500"
        /\ LoadpointsWithSlot = {"1"}
        /\ DeviceOf(<<"loadpoint", "1", "mode">>).nValue = 30
        /\ DeviceOf(<<"loadpoint", "1", "phases">>).nValue = 10
        /\ last.battery_present
        /\ DeviceOf(<<"battery", "1", "mode">>).nValue = 10

C24_Witness ==
    /\ ScenarioDone
    /\ DeviceOf(<<"battery", "1", "soc">>).sValue = "80.0"
    /\ device_unit_mapping[<<"battery", "1", "mode">>] = UNIT_BATTERY_MODE + 1
    /\ device_unit_mapping[<<"loadpoint", "1", "mode">>] = UNIT_LP_MODE

-----------------------------------------------------------------------------
(* Properties of the identity resolver                                      *)

Injective(f) == \A a, b \in DOMAIN f : f[a] = f[b] => a = b

\* C17: device_unit_mapping never maps two keys to one unit (every caller
\* creates the device of a unit it allocated before it allocates again).
C17_ResolutionIsInjective == Injective(device_unit_mapping)

C17_Witness ==
    /\ last.op = "onStart"
    /\ ~last.empty
    /\ Len(last.vehicles) = MaxVehicles
    /\ Cardinality(DOMAIN device_unit_mapping) = 2 * MaxVehicles
    /\ \E u \in DOMAIN Devices : Devices[u].DeviceID # last.vehicles[1]
                                  /\ Devices[u].Description[2] = "1"

\* C18: a unit that was created for external id e is, while its device
\* exists, never written with the values of another external id.
C18_UnitServesOneExternalId ==
    [][last'.op = "update" =>
          \A p \in last'.served : Devices'[p[1]].DeviceID = p[2]]_vars

FirstUnitOf(D, external_id) ==
    CHOOSE u \in DOMAIN D :
        /\ D[u].DeviceID = external_id
        /\ \A v \in DOMAIN D : D[v].DeviceID = external_id => u <= v

\* onStart has run on an empty registry in this step
FirstDiscovery == last'.op = "onStart" /\ last'.empty

\* C20 as stated: from an empty registry the first vehicle gets the slot
\* VEHICLE_BASE + 0 * 20 and the second VEHICLE_BASE + 1 * 20, whatever their
\* external ids are.
C20_FirstVehicleAtBase ==
    [][FirstDiscovery =>
          \A k \in DOMAIN last'.vehicles :
             FirstUnitOf(Devices', last'.vehicles[k])
                = UNIT_BASE_VEHICLE + (k - 1) * STRIDE_ENTITY]_vars

\* C20 amended: the plugin counts the vehicles from 1, so the first vehicle
\* gets VEHICLE_BASE + 1 * 20 and the second VEHICLE_BASE + 2 * 20, whatever
\* their external ids are.
C20_SlotsFollowDiscoveryOrder ==
    [][FirstDiscovery =>
          \A k \in DOMAIN last'.vehicles :
             FirstUnitOf(Devices', last'.vehicles[k])
                = UNIT_BASE_VEHICLE + k * STRIDE_ENTITY]_vars

C20_Witness ==
    /\ last.op = "onStart"
    /\ last.empty
    /\ last.vehicles = <<"db:2", "db:5">>
    /\ FirstUnitOf(Devices, "db:5") = UNIT_BASE_VEHICLE + 2 * STRIDE_ENTITY

\* C21: an update cycle gives every vehicle of its payload a slot: after
\* the cycle the soc key of the k-th vehicle is in device_unit_mapping,
\* whether or not onStart had seen a k-th vehicle.
C21_CreatedOnFirstSighting ==
    [][last'.op = "update" =>
          \A k \in DOMAIN last'.vehicles :
             DeviceKey("vehicle", IntId(VehicleIndex(k)), S_soc)
                \in DOMAIN device_unit_mapping']_vars

\* the records of D that carry a description, and the first of them
RecordsOf(D, key) == {u \in DOMAIN D : D[u].Description = key}
FirstRecordOf(D, key) ==
    CHOOSE u \in RecordsOf(D, key) : \A w \in RecordsOf(D, key) : u <= w

\* C23: when two records resolve to the same key, recovery keeps the first
\* record's mapping and leaves the other record out of unit_device_mapping;
\* every record without a conflict is mapped both ways.
C23_ConflictLeavesRecordUnmapped ==
    [][last'.op = "load" =>
          \A u \in DOMAIN Devices :
             LET key == Devices[u].Description
             IN IF u = FirstRecordOf(Devices, key)
                THEN /\ key \in DOMAIN device_unit_mapping'
                     /\ device_unit_mapping'[key] = u
                     /\ u \in DOMAIN unit_device_mapping'
                     /\ unit_device_mapping'[u] = key
                ELSE u \notin DOMAIN unit_device_mapping']_vars


-----------------------------------------------------------------------------
(* Properties of close_websocket                                            *)

\* the step on which a close_websocket call that found a connection returns,
\* on the plugin's thread or on the timer that closes an idle connection
CloseWebsocketReturns ==
    \/ main.pc = "clear" /\ main'.pc # "clear"
    \/ \E i \in 1..MaxTimers : timers[i].pc = "clear" /\ timers'[i].pc # "clear"

\* C25: when close_websocket returns, api.ws is None and api.ws_connected is
\* false, whatever the callbacks of the connection do while it runs
C25_CloseLeavesNoConnection ==
    [][CloseWebsocketReturns => (api'.ws = NoWs /\ ~api'.ws_connected)]_vars


-----------------------------------------------------------------------------
(* Properties of the classification of fragments                            *)

\* on_message took the fragment as a complete state
TakenAsComplete ==
    /\ api'.last_complete_update = now
    /\ api'.ws_last_data = last'.message.data
    /\ api'.ws_temp_data = EmptyDict

\* the keys taken for hallmarks: grid power, home power, PV power, version,
\* the vehicle collection and every flattened loadpoint key
Hallmarks ==
    {"grid", "gridPower", "homePower", "pvPower", "version", "vehicles"}
        \cup FlatLoadpointKeys

\* C26: a fragment is complete exactly when it has two or more of the
\* hallmark keys grid power, home power, PV power, version, vehicles and
\* loadpoints.<n>.<field>
C26_CompleteIffTwoHallmarks ==
    [][(last'.op = "fragment" /\ last'.fresh)
          => (TakenAsComplete
                <=> Cardinality(Hallmarks \cap DOMAIN last'.message.data) >= 2)]_vars

\* C26, amended: a fragment is complete exactly when two or more of its keys
\* are among "pvPower", "grid", "homePower" and "loadpoints.0"
C26_CompleteIffTwoIndicators ==
    [][(last'.op = "fragment" /\ last'.fresh)
          => (TakenAsComplete
                <=> Cardinality({"pvPower", "grid", "homePower", "loadpoints.0"}
                                    \cap DOMAIN last'.message.data) >= 2)]_vars

\* a fragment with "version" and "vehicles" was taken as partial on a
\* connection without a base snapshot
C26_Witness ==
    /\ last.op = "fragment"
    /\ last.fresh
    /\ DOMAIN last.message.data = {"version", "vehicles"}
    /\ api.ws_temp_data = last.message.data
    /\ api.ws_last_data = EmptyDict
    /\ ~api.received_complete_state


-----------------------------------------------------------------------------
(* Properties of the partial accumulator                                    *)

\* on_message handled the dict as a partial: it has fewer than two
\* indicators, or min_complete_update_interval has not passed
PartialHandled(message) ==
    /\ MergeStep(message)
    /\ message.kind = "dict"
    /\ ~(/\ is_complete_state(message.data)
         /\ now - api.last_complete_update >= min_complete_update_interval)

\* `if self.ws_last_data and (current_time - self.last_data_update) >= 1`
FoldDue == api.ws_last_data # EmptyDict /\ now - api.last_data_update >= 1

\* d with the keys of data at the values of data, its other keys as they were
Overwritten(d, data, e) ==
    /\ DOMAIN e = DOMAIN d \cup DOMAIN data
    /\ \A k \in DOMAIN data : e[k] = data[k]
    /\ \A k \in DOMAIN d \ DOMAIN data : e[k] = d[k]

\* C27: a partial is folded into the base snapshot only when the base is not
\* empty and one second has passed since last_data_update; otherwise the
\* base is unchanged and the keys accumulate in ws_temp_data, a later value
\* overwriting an earlier one
C27_FoldOnlyWhenDue ==
    [][\A message \in MergeMessages :
          PartialHandled(message) =>
              IF FoldDue
              THEN /\ \E acc \in {Update(api.ws_temp_data, message.data)} :
                          Overwritten(api.ws_last_data, acc, api'.ws_last_data)
                   /\ api'.ws_temp_data = EmptyDict
                   /\ api'.last_data_update = now
              ELSE /\ api'.ws_last_data = api.ws_last_data
                   /\ api'.last_data_update = api.last_data_update
                   /\ Overwritten(api.ws_temp_data, message.data,
                                  api'.ws_temp_data)]_vars

\* a partial arrived less than a second after the base changed, and
\* overwrote a value that was waiting in the accumulator
C27_Witness ==
    /\ last.op = "on_message"
    /\ last.path = "accumulate"
    /\ last.before # EmptyDict
    /\ api.ws_last_data = last.before
    /\ "gridPower" \in DOMAIN api.ws_temp_data
    /\ api.ws_temp_data["gridPower"] = 2
    /\ \E k \in DOMAIN api.ws_temp_data : api.ws_temp_data[k] = 1


-----------------------------------------------------------------------------
(* Properties of the first complete fragment of a connection                *)

\* the step is on_message for the first complete fragment of a connection
FirstCompleteArrives ==
    /\ calls' = calls + 1
    /\ last'.op = "fragment"
    /\ is_complete_state(last'.message.data)
    /\ last'.completes = 1

\* C28: the first complete fragment of a connection is accepted at once and
\* replaces the base wholesale, whenever the connection was opened and
\* whenever the previous connection accepted a complete fragment
C28_FirstCompleteIsAccepted ==
    [][FirstCompleteArrives
          => /\ api'.ws_last_data = last'.message.data
             /\ api'.ws_temp_data = EmptyDict
             /\ api'.received_complete_state
             /\ api'.last_complete_update = now]_vars

\* the second connection's first complete fragment was accepted while the
\* timer that the first connection's complete fragment started, at the same
\* second, is still to fire
C28_Witness ==
    /\ last.op = "fragment"
    /\ last.completes = 1
    /\ is_complete_state(last.message.data)
    /\ thread[1].ws = 2
    /\ timers[1] = [pc |-> "armed", by |-> 1]
    /\ api.ws_last_data = last.message.data
    /\ api.last_complete_update = now


-----------------------------------------------------------------------------
(* Properties of the forced reconnect                                       *)

\* the step is the cycle of heartbeat i, in the stream regime, whose
\* current_time is ws_reconnect_interval or more after last_ws_reconnect
ForcedRefreshRuns(i) ==
    /\ last'.op = "onHeartbeat"
    /\ ~last'.skipped
    /\ last'.i = i
    /\ hb[i].pc = "cycle"
    /\ hb'[i].pc = "idle"
    /\ plugin.use_websocket
    /\ hb[i].current_time - plugin.last_ws_reconnect >= ws_reconnect_interval

\* C29: such a heartbeat makes one connection attempt that replaces the
\* connection, writes no device and takes no snapshot, and when the attempt
\* succeeds last_ws_reconnect is the time of the attempt
C29_ForcedRefreshReconnects ==
    [][\A i \in 1..MaxHeartbeats :
          ForcedRefreshRuns(i)
              => /\ Len(last'.log) = 1
                 /\ last'.log[1].ev = "connect"
                 /\ last'.log[1].keep_connection
                 /\ last'.log[1].ok = api'.ws_connected
                 /\ api'.ws_last_data = EmptyDict
                       \/ \E message \in FirstFrames \ {NoMessage} :
                             api'.ws_last_data = message.data
                 /\ plugin'.last_data = plugin.last_data
                 /\ plugin'.last_data_hash = plugin.last_data_hash
                 /\ plugin'.last_websocket_update = plugin.last_websocket_update
                 /\ ~plugin'.update_in_progress
                 /\ IF api'.ws_connected
                    THEN /\ plugin'.last_ws_reconnect = now
                         /\ plugin'.ws_retry_count = 0
                         /\ api'.ws_keep_connection
                    ELSE plugin'.last_ws_reconnect = plugin.last_ws_reconnect]_vars

\* a minute after onStart connected, a heartbeat found the connection open
\* with a snapshot the plugin had applied, and replaced it: the new
\* connection has no snapshot yet and the plugin's snapshot is the old one
C29_Witness ==
    /\ last.op = "onHeartbeat"
    /\ ~last.skipped
    /\ last.branch = "forced"
    /\ now = StartTime + ws_reconnect_interval
    /\ api.ws_connected
    /\ api.ws_last_data = EmptyDict
    /\ plugin.last_ws_reconnect = now
    /\ Truthy(plugin.last_data)


-----------------------------------------------------------------------------
(* Properties of the allocation of a unit                                   *)

\* the step is get_device_unit with create_new for a key that is not mapped
AllocatingCall(device_id, parameter) ==
    /\ last'.op = "get_device_unit"
    /\ last'.create_new
    /\ last'.key = DeviceKey("vehicle", device_id, parameter)
    /\ last'.key \notin DOMAIN device_unit_mapping

\* C30: for a key that is not mapped and create_new, get_device_unit returns
\* the smallest unit from base + id * stride on that no device has, and
\* stores key -> unit and unit -> key, every other entry staying as it was
C30_AllocatesSmallestFreeUnit ==
    [][\A device_id \in ResolveIds, parameter \in ResolveParameters :
          AllocatingCall(device_id, parameter)
              => \E base \in {UNIT_BASE_VEHICLE + safe_int(device_id) * STRIDE_ENTITY} :
                    /\ ~last'.is_none
                    /\ last'.unit >= base
                    /\ last'.unit \notin DOMAIN Devices
                    /\ \A v \in base..(last'.unit - 1) : v \in DOMAIN Devices
                    /\ DOMAIN device_unit_mapping'
                          = DOMAIN device_unit_mapping \cup {last'.key}
                    /\ device_unit_mapping'[last'.key] = last'.unit
                    /\ \A k \in DOMAIN device_unit_mapping :
                          device_unit_mapping'[k] = device_unit_mapping[k]
                    /\ DOMAIN unit_device_mapping'
                          = DOMAIN unit_device_mapping \cup {last'.unit}
                    /\ unit_device_mapping'[last'.unit] = last'.key
                    /\ \A v \in DOMAIN unit_device_mapping \ {last'.unit} :
                          unit_device_mapping'[v] = unit_device_mapping[v]]_vars

\* the key of "db:2", which no registry record carries, was given a unit
\* above its base, which a device has
C30_Witness ==
    /\ last.op = "get_device_unit"
    /\ last.create_new
    /\ ~last.again
    /\ last.key[2] = "db:2"
    /\ UNIT_BASE_VEHICLE + 2 * STRIDE_ENTITY \in DOMAIN Devices
    /\ last.unit > UNIT_BASE_VEHICLE + 2 * STRIDE_ENTITY
    /\ last.unit \notin DOMAIN Devices
    /\ device_unit_mapping[last.key] = last.unit
    /\ unit_device_mapping[last.unit] = last.key


-----------------------------------------------------------------------------
(* Properties of a restart                                                  *)

\* the device whose description is the key
CreatedFor(key) == {u \in DOMAIN Devices : Devices[u].Description = key}

\* C31: _load_device_mapping gives every device the entry key -> unit it had
\* before the restart, the key being its description, and the call of
\* get_device_unit that follows returns that unit and allocates nothing
C31_MappingSurvivesRestart ==
    [][/\ last'.op = "load"
          => \A u \in DOMAIN Devices :
                \E key \in {Devices[u].Description} :
                   /\ key \in DOMAIN device_unit_mapping
                   /\ device_unit_mapping[key] = u
                   /\ key \in DOMAIN device_unit_mapping'
                   /\ device_unit_mapping'[key] = u
                   /\ u \in DOMAIN unit_device_mapping'
                   /\ unit_device_mapping'[u] = key
       /\ (last.op = "load" /\ last'.op = "get_device_unit")
          => \A u \in CreatedFor(last'.key) :
                /\ ~last'.is_none
                /\ last'.unit = u
                /\ UNCHANGED <<device_unit_mapping, unit_device_mapping>>]_vars

\* the plugin was started again on a registry with the device it had
\* created for "db:2" and effective_max_current
C31_Witness ==
    /\ last.op = "load"
    /\ \E u \in CreatedFor(<<"vehicle", "db:2", "effective", "max", "current">>) :
          /\ device_unit_mapping[Devices[u].Description] = u
          /\ unit_device_mapping[u] = Devices[u].Description


-----------------------------------------------------------------------------
(* C32: the base snapshot changes only by the swap in on_message or the    *)
(* reset on connect: no step of a heartbeat's device update cycle, the     *)
(* merge of a fetched vehicle status included, changes the contents of     *)
(* api.ws_last_data.                                                       *)
HeartbeatStep == last'.op \in {"enter", "hash", "copy", "onHeartbeat"}
C32_UpdateCycleKeepsBase ==
    [][HeartbeatStep => api'.ws_last_data = api.ws_last_data]_vars


-----------------------------------------------------------------------------
(* C33: every snapshot the heartbeat takes from the stream is processed as *)
(* the flat shape: its site keys reach the site devices whether or not it  *)
(* has a key that starts with "loadpoints.", so after an applied update    *)
(* the PV power device shows the snapshot's pvPower.                       *)
AppliedSnapshot == last.op = "onHeartbeat" /\ last.applied
C33_SiteKeysAlwaysApplied ==
    AppliedSnapshot /\ "pvPower" \in DOMAIN plugin.last_data
        => Devices[UNIT_BASE_SITE].sValue = ToString(plugin.last_data["pvPower"])


-----------------------------------------------------------------------------
(* C34: for every key in the unit mapping, get_device_info(unit) is the    *)
(* triple that the description pattern gives for the key, also when the    *)
(* parameter has underscores (min_soc, target_soc).                        *)
C34_InfoAgreesWithPattern ==
    \A unit \in DOMAIN unit_device_mapping :
        get_device_info(unit)
            = extract_device_info_from_description(unit_device_mapping[unit])


-----------------------------------------------------------------------------
(* C35: after every heartbeat of the stream regime that applies an update, *)
(* plugin.last_data_hash is the hash of the snapshot in plugin.last_data,  *)
(* however on_message interleaves with the heartbeat.                      *)
C35_HashIsOfStoredSnapshot ==
    AppliedSnapshot => plugin.last_data_hash = Hash(JsonText(plugin.last_data))


-----------------------------------------------------------------------------
(* Properties of the throttle                                               *)

\* on_message handles a complete fragment that arrives less than
\* min_complete_update_interval after the last accepted one
ThrottledComplete(message) ==
    /\ MergeStep(message)
    /\ message.kind = "dict"
    /\ is_complete_state(message.data)
    /\ now - api.last_complete_update < min_complete_update_interval

\* C36: a complete fragment inside the throttle goes the way of a partial:
\* last_complete_update stays, its keys are added to the accumulator, and
\* the base is either left alone or, when a second has passed since
\* last_data_update, overwritten key by key with the accumulator, every key
\* the accumulator lacks keeping its value
C36_ThrottledCompleteIsPartial ==
    [][\A message \in MergeMessages :
          ThrottledComplete(message) =>
              /\ api'.last_complete_update = api.last_complete_update
              /\ api'.received_complete_state = api.received_complete_state
              /\ \E acc \in {Update(api.ws_temp_data, message.data)} :
                    IF FoldDue
                    THEN /\ Overwritten(api.ws_last_data, acc, api'.ws_last_data)
                         /\ api'.ws_temp_data = EmptyDict
                    ELSE /\ api'.ws_last_data = api.ws_last_data
                         /\ api'.ws_temp_data = acc]_vars

\* a throttled complete fragment was folded into a base that has a key the
\* fragment lacks, and the key is still there
C36_Witness ==
    /\ last.op = "on_message"
    /\ last.path = "fold"
    /\ is_complete_state(last.message.data)
    /\ \E k \in DOMAIN last.before \ DOMAIN last.message.data :
          k \in DOMAIN api.ws_last_data
    /\ now - api.last_complete_update >= 1


-----------------------------------------------------------------------------
(* Progress of the accumulator                                              *)

\* fields wait in ws_temp_data while the connection is open and has a base
AccumulatorWaits ==
    /\ api.ws_connected
    /\ api.ws_last_data # EmptyDict
    /\ api.ws_temp_data # EmptyDict

\* on_message has folded the accumulator or accepted a complete snapshot, or
\* the connection is no longer open
AccumulatorServed ==
    \/ last.op = "on_message" /\ last.path \in {"fold", "complete"}
    \/ ~api.ws_connected

\* C37: fields that wait in the accumulator of an open connection with a
\* base snapshot eventually become part of ws_last_data or are superseded by
\* an accepted complete snapshot, whether or not another frame arrives.
C37_AccumulatorEventuallyFolded == AccumulatorWaits ~> AccumulatorServed


-----------------------------------------------------------------------------
(* Properties of the polling regime                                         *)

\* the step is the body of heartbeat i
HeartbeatRuns(i) ==
    /\ last'.op = "onHeartbeat"
    /\ ~last'.skipped
    /\ last'.i = i
    /\ hb[i].pc = "cycle"
    /\ hb'[i].pc = "idle"

\* _initialize_websocket is the caller of connect_websocket with
\* keep_connection=True
CallsInitializeWebsocket(log) ==
    \E j \in 1..Len(log) : log[j].ev = "connect" /\ log[j].keep_connection

\* C38: once use_websocket is false no step sets it again, and no heartbeat
\* that starts with it false calls _initialize_websocket
C38_FallbackIsAbsorbing ==
    [][~plugin.use_websocket
          => /\ ~plugin'.use_websocket
             /\ \A i \in 1..MaxHeartbeats :
                   HeartbeatRuns(i) => /\ ~CallsInitializeWebsocket(last'.log)
                                       /\ last'.branch \in {"poll", "wait"}]_vars

\* a heartbeat of the polling regime has fetched the state, over a one-time
\* connection that opened, after the stream regime was given up
C38_Witness ==
    /\ ~plugin.use_websocket
    /\ last.op = "onHeartbeat"
    /\ ~last.skipped
    /\ last.branch = "poll"
    /\ \E j \in 1..Len(last.log) : last.log[j].ev = "connect" /\ last.log[j].ok


-----------------------------------------------------------------------------
(* Properties of the heartbeat guard                                        *)

NoHeartbeatExecuting == \A i \in 1..MaxHeartbeats : hb[i].pc = "idle"

\* C39: plugin.update_in_progress is false whenever no call of onHeartbeat
\* is executing: every way out of onHeartbeat clears it
C39_GuardClearWhenIdle == NoHeartbeatExecuting => ~plugin.update_in_progress

\* a heartbeat whose update routine raised has returned
C39_Witness ==
    /\ NoHeartbeatExecuting
    /\ last.op = "onHeartbeat"
    /\ ~last.skipped
    /\ \E j \in 1..Len(last.log) : last.log[j].ev = "update" /\ last.log[j].raises
    /\ ~plugin.update_in_progress


-----------------------------------------------------------------------------
(* Progress of on_message                                                   *)

\* C40: api.update_in_progress is always eventually cleared: an on_message
\* that has set the flag clears it before it returns, so no frame is
\* deferred for ever because of a flag left set.
C40_FlagEventuallyCleared == api.update_in_progress ~> ~api.update_in_progress

\* on_message has set the flag for a frame and is in its try block
C40_Witness ==
    /\ api.update_in_progress
    /\ \E t \in Threads : thread[t].pc = "process" /\ thread[t].message.kind = "dict"

====
